---- MODULE Spec2Model ----
(***************************************************************************)
(* Model of the ajax-linter language server: the URL matcher, the $.ajax   *)
(* call recogniser and the diagnostic rule engine, each translated from    *)
(* the TypeScript sources.                                                 *)
(*                                                                         *)
(* Conventions.                                                            *)
(*  - A JavaScript string that the code takes apart (a URL) is a sequence  *)
(*    of one-character strings, so split('/'), startsWith and endsWith are *)
(*    computed and not assumed.  Other strings (property names, verbs) are *)
(*    TLA+ strings.                                                        *)
(*  - An optional value (T | undefined) is a sequence of length 0 or 1.    *)
(*  - Path names are abbreviated: /api/users is "/u", /api/products "/p".  *)
(***************************************************************************)
EXTENDS Naturals, Sequences, FiniteSets, TLC

VARIABLES
    mockSwagger,      \* the route table compiled into the server (read-only)
    currentUrl,       \* matcher harness: the literal URL handed to the matcher
    urlMatch,         \* matcher harness: getMatchingSwaggerUrl(currentUrl), once called
    urlMatchSlash,    \* matcher harness: getMatchingSwaggerUrl(currentUrl + '/'), once called
    node,             \* recogniser harness: the tree node under inspection
    nodeMatches,      \* recogniser harness: AjaxFeature.matches(node), once called
    document,         \* server: the open document (one call expression), if any
    diagnostics,      \* server: the diagnostic list last sent for the document
    passes,           \* server: validation passes run on the document's current text
    completion,       \* server: the answer to the completion request on the current text
    dataSchema,       \* snippet harness: the schema handed to generateDataSnippet
    dataSnippet,      \* snippet harness: generateDataSnippet(dataSchema), once called
    features,         \* FeatureManager.features
    completionFeaturesByNodeType,   \* FeatureManager: the cached table, or null
    diagnosticFeaturesByNodeType,   \* FeatureManager: the cached table, or null
    dispatched,       \* FeatureManager: what the last call of a getter or dispatcher gave
    documents,        \* workspace: the open documents by uri (TextDocuments)
    sent              \* workspace: the sendDiagnostics notifications, oldest first

serverVars == <<mockSwagger, currentUrl, urlMatch, urlMatchSlash, node, nodeMatches,
                document, diagnostics, passes, completion>>
snippetVars == <<dataSchema, dataSnippet>>
managerVars == <<features, completionFeaturesByNodeType, diagnosticFeaturesByNodeType, dispatched>>
workspaceVars == <<documents, sent>>

vars == <<serverVars, snippetVars, managerVars, workspaceVars>>

(***************************************************************************)
(* Bounds of the model.                                                    *)
(***************************************************************************)
MaxUrlLen == 6
MaxArgs == 2
MaxProps == 3
MaxDataProps == 2
MaxSchemaProps == 3
MaxFeatures == 2
MaxEvents == 3

(***************************************************************************)
(* Optional values.                                                        *)
(***************************************************************************)
undefined == <<>>
Some(v) == <<v>>
IsDefined(o) == o # <<>>
ValueOf(o) == o[1]

(***************************************************************************)
(* Strings as character sequences.                                         *)
(***************************************************************************)
Chars(alphabet, n) == UNION {[1..k -> alphabet] : k \in 0..n}

RECURSIVE SplitFrom(_, _, _, _)
SplitFrom(s, i, cur, acc) ==
    IF i > Len(s) THEN Append(acc, cur)
    ELSE IF s[i] = "/" THEN SplitFrom(s, i + 1, <<>>, Append(acc, cur))
    ELSE SplitFrom(s, i + 1, Append(cur, s[i]), acc)

\* String.prototype.split('/'): the pieces between the slashes, empty ones kept.
Split(s) == SplitFrom(s, 1, <<>>, <<>>)

\* url.split('/').filter(part => part !== '')
UrlPartsKeepEmpty(url) == Split(url)
UrlParts(url) == SelectSeq(Split(url), LAMBDA part : part # <<>>)

\* swaggerParts[i].startsWith('{') && swaggerParts[i].endsWith('}')
IsPathParam(part) == Len(part) >= 1 /\ part[1] = "{" /\ part[Len(part)] = "}"

(***************************************************************************)
(* The route table.  A table is a sequence of routes in the iteration      *)
(* order of for..in (insertion order: no key is an array index).  A route  *)
(* is [url, methods]; methods maps each verb key of the SwaggerPath to its *)
(* SwaggerMethod [parameters]; a parameter is [in, name, schema] with an   *)
(* optional schema [type, properties, required]; properties is the ordered *)
(* list of the schema's own keys, each a schema with its key as `name`.    *)
(* A type that is not declared is "".  An example is [kind, text]: the     *)
(* JavaScript value and the characters of its literal.                     *)
(***************************************************************************)
Schema(t, props, req) == [type |-> t, properties |-> props, required |-> req]
Prop(n, t) ==
    [name |-> n, type |-> t, example |-> undefined, items |-> undefined,
     properties |-> undefined, required |-> undefined]
Example(k, t) == [kind |-> k, text |-> t]
PropEx(n, t, ex) == [Prop(n, t) EXCEPT !.example = Some(ex)]
ArrayProp(n, itemSchema) == [Prop(n, "array") EXCEPT !.items = Some(itemSchema)]
ObjectProp(n, props, req) ==
    [Prop(n, "object") EXCEPT !.properties = Some(props), !.required = Some(req)]
Param(in, n, schema) == [in |-> in, name |-> n, schema |-> schema]
Method(params) == [parameters |-> params]
Route(url, methods) == [url |-> url, methods |-> methods]

PathParam(n) == Param("path", n, Some(Schema("integer", undefined, undefined)))

UserCreateSchema ==
    Schema("object",
           Some(<<PropEx("username", "string", Example("string", <<"j">>)),
                  PropEx("email", "string", Example("string", <<"j", "@", "e">>)),
                  PropEx("age", "integer", Example("number", <<"3", "0">>)),
                  PropEx("optionalUserInfo", "string", Example("string", <<"i">>))>>),
           Some(<<"username", "email">>))

UserUpdateSchema ==
    Schema("object",
           Some(<<PropEx("username", "string", Example("string", <<"j">>)),
                  PropEx("email", "string", Example("string", <<"j", "@", "e">>)),
                  PropEx("age", "integer", Example("number", <<"3", "0">>)),
                  PropEx("optionalUpdateField", "string", Example("string", <<"f">>))>>),
           Some(<<>>))

ProductCreateSchema ==
    Schema("object",
           Some(<<PropEx("name", "string", Example("string", <<"N">>)),
                  PropEx("price", "number", Example("number", <<"9", ".", "9", "9">>)),
                  PropEx("category", "string", Example("string", <<"E">>))>>),
           Some(<<"name", "price">>))

\* The body of POST '/api/orders': an array of objects and a nested object.
OrderCreateSchema ==
    Schema("object",
           Some(<<ArrayProp("items",
                            ObjectProp("", <<PropEx("productId", "integer", Example("number", <<"1">>)),
                                             PropEx("quantity", "integer", Example("number", <<"1">>))>>,
                                       <<"productId", "quantity">>)),
                  ObjectProp("customerInfo",
                             <<PropEx("name", "string", Example("string", <<"J">>)),
                               PropEx("address", "string", Example("string", <<"A">>)),
                               PropEx("phone", "string", Example("string", <<"1", "-", "2">>))>>,
                             <<"name", "address">>)>>),
           Some(<<"items", "customerInfo">>))

\* The body of POST '/api/products/{productId}/reviews'.
ReviewCreateSchema ==
    Schema("object",
           Some(<<PropEx("author", "string", Example("string", <<"A">>)),
                  PropEx("rating", "integer", Example("number", <<"5">>)),
                  ArrayProp("imageUrls", PropEx("", "string", Example("string", <<"h">>)))>>),
           Some(<<"author", "rating">>))

\* '/api/users', '/api/users/{userId}', '/api/users/{userId}/stats',
\* '/api/products', '/api/admin/dashboard', '/api/orders' and
\* '/api/products/{productId}/reviews' of the compiled-in table.
SwaggerTable ==
    << Route(<<"/", "u">>,
             [v \in {"get", "post"} |->
                IF v = "get"
                THEN Method(Some(<<Param("query", "id", Some(Schema("number", undefined, undefined)))>>))
                ELSE Method(Some(<<Param("body", "user", Some(UserCreateSchema))>>))]),
       Route(<<"/", "u", "/", "{", "i", "}">>,
             [v \in {"get", "put", "delete"} |->
                IF v = "put"
                THEN Method(Some(<<PathParam("userId"), Param("body", "user", Some(UserUpdateSchema))>>))
                ELSE Method(Some(<<PathParam("userId")>>))]),
       Route(<<"/", "u", "/", "{", "i", "}", "/", "s">>,
             [v \in {"get"} |-> Method(Some(<<PathParam("userId")>>))]),
       Route(<<"/", "p">>,
             [v \in {"get", "post"} |->
                IF v = "get"
                THEN Method(Some(<<Param("query", "search", Some(Schema("string", undefined, undefined)))>>))
                ELSE Method(Some(<<Param("body", "product", Some(ProductCreateSchema))>>))]),
       Route(<<"/", "d">>,
             [v \in {"get"} |-> Method(undefined)]),
       Route(<<"/", "o">>,
             [v \in {"get", "post"} |->
                IF v = "get"
                THEN Method(Some(<<Param("query", "status", Some(Schema("string", undefined, undefined)))>>))
                ELSE Method(Some(<<Param("body", "order", Some(OrderCreateSchema))>>))]),
       Route(<<"/", "p", "/", "{", "i", "}", "/", "r">>,
             [v \in {"get", "post"} |->
                IF v = "get"
                THEN Method(Some(<<PathParam("productId")>>))
                ELSE Method(Some(<<PathParam("productId"),
                                   Param("body", "review", Some(ReviewCreateSchema))>>))]) >>

\* The table the unit tests put in place of the compiled-in one: the body
\* schema declares no type and its property age no example.
TestSwagger ==
    << Route(<<"/", "u">>,
             [v \in {"get", "post"} |->
                IF v = "get" THEN Method(undefined)
                ELSE Method(Some(<<Param("body", "", Some(
                        Schema("",
                               Some(<<PropEx("name", "string", Example("string", <<"J">>)),
                                      PropEx("email", "string", Example("string", <<"j", "@", "e">>)),
                                      Prop("age", "integer")>>),
                               Some(<<"name", "email">>))))>>))]),
       Route(<<"/", "p">>,
             [v \in {"get"} |-> Method(undefined)]) >>

\* A table whose body schema declares one property of every type, and one of
\* no type, without examples.
PlainSwagger ==
    << Route(<<"/", "u">>,
             [v \in {"patch"} |->
                Method(Some(<<Param("body", "b", Some(
                    Schema("object",
                           Some(<<Prop("s", "string"), Prop("n", "number"), Prop("i", "integer"),
                                  Prop("b", "boolean"), Prop("a", "array"), Prop("o", "object"),
                                  Prop("x", ""),
                                  PropEx("t", "boolean", Example("boolean", <<"t", "r", "u", "e">>))>>),
                           undefined)))>>))]) >>

\* A table whose templates overlap: a literal URL can match several of them.
OverlapTable ==
    << Route(<<"/", "u", "/", "{", "i", "}">>,
             [v \in {"get"} |-> Method(Some(<<PathParam("userId")>>))]),
       Route(<<"/", "u", "/", "s">>,
             [v \in {"get", "post"} |-> Method(undefined)]),
       Route(<<"/", "{", "k", "}", "/", "s">>,
             [v \in {"delete"} |-> Method(Some(<<PathParam("k")>>))]),
       Route(<<"/", "s">>,
             [v \in {"get"} |-> Method(undefined)]),
       Route(<<"/", "{", "k", "}">>,
             [v \in {"put"} |-> Method(Some(<<PathParam("k")>>))]) >>

Tables == {SwaggerTable, OverlapTable}

(***************************************************************************)
(* getMatchingSwaggerUrl.                                                  *)
(***************************************************************************)
\* The inner loop over the parts, for two part lists of equal length.
PartsMatchConcrete(swaggerParts, currentParts) ==
    \A i \in 1..Len(swaggerParts) :
        IF IsPathParam(swaggerParts[i])
        THEN currentParts[i] # <<>> /\ ~IsPathParam(currentParts[i])
        ELSE swaggerParts[i] = currentParts[i]
PartsMatch(swaggerParts, currentParts) ==
    \A i \in 1..Len(swaggerParts) :
        IF IsPathParam(swaggerParts[i])
        THEN currentParts[i] # <<>>
        ELSE swaggerParts[i] = currentParts[i]

TemplateMatches(swaggerUrl, url) ==
    LET swaggerParts == UrlParts(swaggerUrl)
        currentParts == UrlParts(url)
    IN  /\ Len(swaggerParts) = Len(currentParts)
        /\ PartsMatch(swaggerParts, currentParts)

RECURSIVE MatchFrom(_, _, _)
MatchFrom(table, url, i) ==
    IF i > Len(table) THEN undefined
    ELSE IF TemplateMatches(table[i].url, url) THEN Some(table[i].url)
    ELSE MatchFrom(table, url, i + 1)

RECURSIVE MatchFromLast(_, _, _)
MatchFromLast(table, url, i) ==
    IF i < 1 THEN undefined
    ELSE IF TemplateMatches(table[i].url, url) THEN Some(table[i].url)
    ELSE MatchFromLast(table, url, i - 1)

getMatchingSwaggerUrlLast(table, url) == MatchFromLast(table, url, Len(table))
getMatchingSwaggerUrl(table, url) == MatchFrom(table, url, 1)

(***************************************************************************)
(* Matcher harness: a literal URL is chosen and handed to the matcher,     *)
(* with and without a trailing slash.                                      *)
(***************************************************************************)
UrlAlphabet == {"/", "u", "s"}
Urls == Chars(UrlAlphabet, MaxUrlLen)

NotCalled == <<"not called">>
Returned(r) == <<"returned", r>>

\* The parts of the program a harness does not exercise: no snippet asked
\* for, a FeatureManager as constructed, no document open in the workspace.
IdleSnippet == dataSchema = undefined /\ dataSnippet = NotCalled
NothingDispatched ==
    [d \in {"completion scan", "completion indexed", "diagnostics scan", "diagnostics indexed"} |-> NotCalled]
IdleManager ==
    /\ features = <<>>
    /\ completionFeaturesByNodeType = undefined
    /\ diagnosticFeaturesByNodeType = undefined
    /\ dispatched = NothingDispatched
IdleWorkspace == documents = <<>> /\ sent = <<>>

InitUrl ==
    /\ mockSwagger \in Tables
    /\ currentUrl \in Urls
    /\ urlMatch = NotCalled
    /\ urlMatchSlash = NotCalled
    /\ node = undefined
    /\ nodeMatches = NotCalled
    /\ document = undefined
    /\ diagnostics = <<>>
    /\ passes = 0
    /\ completion = NotCalled
    /\ IdleSnippet /\ IdleManager /\ IdleWorkspace

MatchUrl ==
    /\ urlMatch = NotCalled
    /\ urlMatch' = Returned(getMatchingSwaggerUrl(mockSwagger, currentUrl))
    /\ UNCHANGED <<snippetVars, managerVars, workspaceVars>>
    /\ UNCHANGED <<mockSwagger, currentUrl, urlMatchSlash, node, nodeMatches,
                   document, diagnostics, passes, completion>>

MatchUrlSlash ==
    /\ urlMatchSlash = NotCalled
    /\ urlMatchSlash' = Returned(getMatchingSwaggerUrl(mockSwagger, Append(currentUrl, "/")))
    /\ UNCHANGED <<snippetVars, managerVars, workspaceVars>>
    /\ UNCHANGED <<mockSwagger, currentUrl, urlMatch, node, nodeMatches,
                   document, diagnostics, passes, completion>>

NextUrl == MatchUrl \/ MatchUrlSlash

SpecUrl == InitUrl /\ [][NextUrl]_vars

(***************************************************************************)
(* AjaxFeature.matches.  A tree node is [kind, expression, arguments]; the *)
(* callee `expression` is [kind, expression, name], its receiver and name  *)
(* are [kind, text]; an argument is [kind].                                *)
(***************************************************************************)
Leaf(k, t) == [kind |-> k, text |-> t]
Callee(k, receiver, name) == [kind |-> k, expression |-> receiver, name |-> name]
Call(k, callee, args) == [kind |-> k, expression |-> callee, arguments |-> args]

matchesAnyReceiver(n) ==
    IF n.kind = "CallExpression"
    THEN IF n.expression.kind = "PropertyAccessExpression"
         THEN IF /\ n.expression.name.kind = "Identifier"
                 /\ n.expression.name.text = "ajax"
              THEN Len(n.arguments) > 0 /\ n.arguments[1].kind = "ObjectLiteralExpression"
              ELSE FALSE
         ELSE FALSE
    ELSE FALSE

matches(n) ==
    IF n.kind = "CallExpression"
    THEN IF n.expression.kind = "PropertyAccessExpression"
         THEN IF /\ n.expression.expression.kind = "Identifier"
                 /\ (n.expression.expression.text = "$" \/ n.expression.expression.text = "jQuery")
                 /\ n.expression.name.kind = "Identifier"
                 /\ n.expression.name.text = "ajax"
              THEN Len(n.arguments) > 0 /\ n.arguments[1].kind = "ObjectLiteralExpression"
              ELSE FALSE
         ELSE FALSE
    ELSE FALSE

(***************************************************************************)
(* Object literals of the parsed source.  A property is                    *)
(* [kind, name, initializer]: kind PropertyAssignment (key: value) or      *)
(* ShorthandPropertyAssignment ({key}, which has no initializer of its own *)
(* in the tree: the field then repeats the name and is never read); name   *)
(* is [kind, text], an Identifier or a quoted StringLiteral key; an        *)
(* initializer is [kind, text, properties], text being the literal's       *)
(* content and properties the members of an object literal.                *)
(***************************************************************************)
Value(k, t, props) == [kind |-> k, text |-> t, properties |-> props]
StringLit(t) == Value("StringLiteral", t, <<>>)
NumLit(t) == Value("NumericLiteral", t, <<>>)
Ident(t) == Value("Identifier", t, <<>>)
TrueKw == Value("TrueKeyword", <<"t", "r", "u", "e">>, <<>>)
ArrayLit == Value("ArrayLiteralExpression", <<"[", "]">>, <<>>)
ObjectLit(props) == Value("ObjectLiteralExpression", <<>>, props)
\* A callback whose body is one nested call: ()=>{$.ajax({...})}; text is what
\* precedes the nested config object, properties are that object's members.
Callback(props) ==
    Value("ArrowFunction", <<"(", ")", "=", ">", "{", "$", ".", "a", "j", "a", "x", "(">>, props)

Assign(n, init) ==
    [kind |-> "PropertyAssignment", name |-> Leaf("Identifier", n), initializer |-> init]
QuotedAssign(n, init) ==
    [kind |-> "PropertyAssignment", name |-> Leaf("StringLiteral", n), initializer |-> init]
Shorthand(n) ==
    [kind |-> "ShorthandPropertyAssignment", name |-> Leaf("Identifier", n),
     initializer |-> Ident(<<n>>)]

(***************************************************************************)
(* Source positions, as the parser reports them (getStart, getEnd) for the *)
(* text written without white space: recv.ajax({k:v,k:v}).                 *)
(***************************************************************************)
NameWidth(name) == IF name.kind = "StringLiteral" THEN Len(name.text) + 2 ELSE Len(name.text)

RECURSIVE ValueWidth(_)
RECURSIVE PropsWidth(_)
PropWidth(prop) ==
    IF prop.kind = "ShorthandPropertyAssignment" THEN NameWidth(prop.name)
    ELSE NameWidth(prop.name) + 1 + ValueWidth(prop.initializer)
PropsWidth(props) ==
    IF props = <<>> THEN 0
    ELSE IF Len(props) = 1 THEN PropWidth(props[1])
    ELSE PropWidth(Head(props)) + 1 + PropsWidth(Tail(props))
ValueWidth(v) ==
    IF v.kind = "StringLiteral" THEN Len(v.text) + 2
    ELSE IF v.kind = "ObjectLiteralExpression" THEN 2 + PropsWidth(v.properties)
    ELSE IF v.kind = "ArrowFunction" THEN Len(v.text) + 2 + PropsWidth(v.properties) + Len(")}")
    ELSE Len(v.text)

\* A node with its span: what the code holds in urlNode, typeNode, dataNode, prop.
Located(n, start, width) == [node |-> n, start |-> start, end |-> start + width]

\* The i-th property of the object literal that starts at objStart.
PropStart(objStart, props, i) ==
    objStart + 1 + (IF i = 1 THEN 0 ELSE PropsWidth(SubSeq(props, 1, i - 1)) + 1)
LocatedName(objStart, props, i) ==
    Located(props[i].name, PropStart(objStart, props, i), NameWidth(props[i].name))
LocatedInitializer(objStart, props, i) ==
    Located(props[i].initializer,
            PropStart(objStart, props, i) + NameWidth(props[i].name) + 1,
            ValueWidth(props[i].initializer))

\* textDocument.positionAt on a one-line document.
positionAt(offset) == [line |-> 0, character |-> offset]

RangeOf(start, end) == [start |-> positionAt(start), end |-> positionAt(end)]
FullRange(loc) == RangeOf(loc.start, loc.end)
InnerRangeWithQuotes(loc) == RangeOf(loc.start, loc.end)
\* { start: positionAt(node.getStart() + 1), end: positionAt(node.getEnd() - 1) }
InnerRange(loc) == RangeOf(loc.start + 1, loc.end - 1)

(***************************************************************************)
(* Diagnostics.                                                            *)
(***************************************************************************)
Diagnostic(sev, range, msg) ==
    [severity |-> sev, range |-> range, message |-> msg, source |-> "swagger-lsp"]

VerbTexts == {"GET", "POST", "PUT", "get", "post", "put", "delete", "patch", "constructor"}

\* String.prototype.toLowerCase / toUpperCase on the verb texts of the model.
toLowerCase(t) ==
    CASE t = "GET" -> "get" [] t = "POST" -> "post" [] t = "PUT" -> "put" [] OTHER -> t
toUpperCase(t) ==
    CASE t = "get" -> "GET" [] t = "post" -> "POST" [] t = "put" -> "PUT"
      [] t = "delete" -> "DELETE" [] t = "patch" -> "PATCH"
      [] t = "constructor" -> "CONSTRUCTOR" [] OTHER -> t

\* getNodeType
getNodeType(n) ==
    IF n.kind = "StringLiteral" THEN Some("string")
    ELSE IF n.kind = "NumericLiteral"
         THEN IF \E i \in 1..Len(n.text) : n.text[i] = "." THEN Some("number") ELSE Some("integer")
    ELSE IF n.kind = "TrueKeyword" \/ n.kind = "FalseKeyword" THEN Some("boolean")
    ELSE IF n.kind = "ArrayLiteralExpression" THEN Some("array")
    ELSE IF n.kind = "ObjectLiteralExpression" THEN Some("object")
    ELSE undefined

\* mockSwagger[swaggerUrlMatch]: the route whose key is the matched template.
RouteOf(table, swaggerUrl) ==
    table[CHOOSE i \in 1..Len(table) : table[i].url = swaggerUrl]

\* The lower-case member names every object literal inherits from
\* Object.prototype: path[type] finds them although they are no verb keys.
ObjectPrototypeMembers == {"constructor", "__proto__"}

\* mockSwagger[swaggerUrlMatch]?.[type]: a property read, own keys first, then
\* the prototype (whose members carry no `parameters`).
PathMember(route, type) ==
    IF type \in DOMAIN route.methods THEN Some(route.methods[type])
    ELSE IF type \in ObjectPrototypeMembers THEN Some(Method(undefined))
    ELSE undefined

\* method.parameters?.find(param => param.in === 'body')
RECURSIVE FindBody(_, _)
FindBody(params, i) ==
    IF i > Len(params) THEN undefined
    ELSE IF params[i].in = "body" THEN Some(params[i])
    ELSE FindBody(params, i + 1)
BodyParamOf(method) ==
    IF IsDefined(method.parameters) THEN FindBody(ValueOf(method.parameters), 1) ELSE undefined

\* dataNode.properties.filter(ts.isPropertyAssignment).map(p => p.name.text)
DataPropertyNamesIdentifierOnly(props) ==
    LET kept == SelectSeq(props, LAMBDA q : q.kind = "PropertyAssignment" /\ q.name.kind = "Identifier")
    IN  [i \in 1..Len(kept) |-> kept[i].name.text]
DataPropertyNames(props) ==
    LET kept == SelectSeq(props, LAMBDA q : q.kind = "PropertyAssignment")
    IN  [i \in 1..Len(kept) |-> kept[i].name.text]

Includes(seq, x) == \E i \in 1..Len(seq) : seq[i] = x

\* The loop over requiredProps.
RECURSIVE MissingRequired(_, _, _, _)
MissingRequired(requiredProps, dataProperties, dataNode, i) ==
    IF i > Len(requiredProps) THEN <<>>
    ELSE (IF ~Includes(dataProperties, requiredProps[i])
          THEN <<Diagnostic("Error", FullRange(dataNode),
                            <<"missing required field", requiredProps[i]>>)>>
          ELSE <<>>)
         \o MissingRequired(requiredProps, dataProperties, dataNode, i + 1)

\* The type test on one declared field.
TypeMismatch(schemaProp, propName, initializer) ==
    LET propType == getNodeType(initializer.node)
    IN  IF IsDefined(propType) /\ schemaProp.type # ValueOf(propType)
           /\ ~(schemaProp.type = "integer" /\ ValueOf(propType) = "number")
        THEN <<Diagnostic("Warning", FullRange(initializer),
                          <<"type mismatch", propName, schemaProp.type, ValueOf(propType)>>)>>
        ELSE <<>>

\* The loop over dataNode.properties.
RECURSIVE FieldChecksAnyKey(_, _, _)
FieldChecksAnyKey(schemaProps, dataNode, i) ==
    LET props == dataNode.node.properties IN
    IF i > Len(props) THEN <<>>
    ELSE (IF props[i].kind = "PropertyAssignment"
          THEN LET propName == props[i].name.text
                   declared == {k \in 1..Len(schemaProps) : schemaProps[k].name = propName}
               IN  IF declared = {}
                   THEN <<Diagnostic("Error",
                                     FullRange(LocatedName(dataNode.start, props, i)),
                                     <<"unknown field", propName>>)>>
                   ELSE TypeMismatch(schemaProps[CHOOSE k \in declared : TRUE], propName,
                                     LocatedInitializer(dataNode.start, props, i))
          ELSE <<>>)
         \o FieldChecksAnyKey(schemaProps, dataNode, i + 1)
RECURSIVE FieldChecks(_, _, _)
FieldChecks(schemaProps, dataNode, i) ==
    LET props == dataNode.node.properties IN
    IF i > Len(props) THEN <<>>
    ELSE (IF props[i].kind = "PropertyAssignment" /\ props[i].name.kind = "Identifier"
          THEN LET propName == props[i].name.text
                   declared == {k \in 1..Len(schemaProps) : schemaProps[k].name = propName}
               IN  IF declared = {}
                   THEN <<Diagnostic("Error",
                                     FullRange(LocatedName(dataNode.start, props, i)),
                                     <<"unknown field", propName>>)>>
                   ELSE TypeMismatch(schemaProps[CHOOSE k \in declared : TRUE], propName,
                                     LocatedInitializer(dataNode.start, props, i))
          ELSE <<>>)
         \o FieldChecks(schemaProps, dataNode, i + 1)

\* The body branch: else if (['post', 'put', 'patch'].includes(type) && dataNode).
BodyDiagnostics(method, dataNode) ==
    LET bodyParam == BodyParamOf(method)
        schema == IF IsDefined(bodyParam) THEN ValueOf(bodyParam).schema ELSE undefined
    IN  IF IsDefined(schema) /\ IsDefined(ValueOf(schema).properties)
        THEN LET requiredProps == IF IsDefined(ValueOf(schema).required)
                                  THEN ValueOf(ValueOf(schema).required) ELSE <<>>
                 dataProperties == DataPropertyNames(dataNode.node.properties)
             IN  MissingRequired(requiredProps, dataProperties, dataNode, 1)
                 \o FieldChecks(ValueOf(ValueOf(schema).properties), dataNode, 1)
        ELSE <<>>

\* propName === 'url' && ts.isStringLiteral(prop.initializer)
CapturesUrlAnyValue(propName, initializer) == propName = "url"
CapturesUrl(propName, initializer) == propName = "url" /\ initializer.kind = "StringLiteral"

\* urlNode = prop.initializer (and the same for typeNode, dataNode): the
\* variable is overwritten, whatever it held.
KeepFirst(held, loc) == IF IsDefined(held) THEN held ELSE Some(loc)
Overwrite(held, loc) == Some(loc)

\* encounteredProps.has(propName)
hasAlways(encounteredProps, propName) == TRUE
has(encounteredProps, propName) == propName \in encounteredProps

\* The first loop: duplicate keys, and the url, type/method and data nodes.
RECURSIVE ScanConfig(_, _, _, _)
ScanConfig(objStart, props, i, st) ==
    IF i > Len(props) THEN st
    ELSE IF props[i].kind = "PropertyAssignment" /\ props[i].name.kind = "Identifier"
    THEN LET propName == props[i].name.text
             init == props[i].initializer
             loc == LocatedInitializer(objStart, props, i)
             dup == IF has(st.encounteredProps, propName)
                    THEN <<Diagnostic("Error", FullRange(LocatedName(objStart, props, i)),
                                      <<"duplicate property", propName>>)>>
                    ELSE <<>>
             st1 == [st EXCEPT !.diagnostics = @ \o dup,
                               !.encounteredProps = @ \cup {propName}]
             st2 == IF CapturesUrl(propName, init)
                    THEN [st1 EXCEPT !.urlNode = Overwrite(@, loc)]
                    ELSE IF (propName = "type" \/ propName = "method") /\ init.kind = "StringLiteral"
                    THEN [st1 EXCEPT !.typeNode = Overwrite(@, loc)]
                    ELSE IF propName = "data" /\ init.kind = "ObjectLiteralExpression"
                    THEN [st1 EXCEPT !.dataNode = Overwrite(@, loc)]
                    ELSE st1
         IN  ScanConfig(objStart, props, i + 1, st2)
    ELSE ScanConfig(objStart, props, i + 1, st)

\* if (urlNode) { ... }
UrlDiagnosticsNoElse(table, st) ==
    IF ~IsDefined(st.urlNode) THEN <<>>
    ELSE LET urlNode == ValueOf(st.urlNode)
             url == urlNode.node.text
             swaggerUrlMatch == getMatchingSwaggerUrl(table, url)
             known == IsDefined(swaggerUrlMatch) /\ ValueOf(swaggerUrlMatch) # <<>>
         IN  (IF known THEN <<>>
              ELSE <<Diagnostic("Error", InnerRange(urlNode), <<"unknown URL", url>>)>>)
             \o (IF IsDefined(st.typeNode)
                 THEN LET typeNode == ValueOf(st.typeNode)
                          type == toLowerCase(typeNode.node.text)
                          method == IF known
                                    THEN PathMember(RouteOf(table, ValueOf(swaggerUrlMatch)), type)
                                    ELSE undefined
                      IN  IF ~IsDefined(method)
                          THEN <<Diagnostic("Error", InnerRange(typeNode),
                                            <<"HTTP method not supported", toUpperCase(type), url>>)>>
                          ELSE IF type \in {"post", "put", "patch"} /\ IsDefined(st.dataNode)
                          THEN BodyDiagnostics(ValueOf(method), ValueOf(st.dataNode))
                          ELSE <<>>
                 ELSE <<>>)
UrlDiagnostics(table, st) ==
    IF ~IsDefined(st.urlNode) THEN <<>>
    ELSE LET urlNode == ValueOf(st.urlNode)
             url == urlNode.node.text
             swaggerUrlMatch == getMatchingSwaggerUrl(table, url)
         IN  IF ~IsDefined(swaggerUrlMatch) \/ ValueOf(swaggerUrlMatch) = <<>>
             THEN <<Diagnostic("Error", InnerRange(urlNode), <<"unknown URL", url>>)>>
             ELSE IF IsDefined(st.typeNode)
             THEN LET typeNode == ValueOf(st.typeNode)
                      type == toLowerCase(typeNode.node.text)
                      method == PathMember(RouteOf(table, ValueOf(swaggerUrlMatch)), type)
                  IN  IF ~IsDefined(method)
                      THEN <<Diagnostic("Error", InnerRange(typeNode),
                                        <<"HTTP method not supported", toUpperCase(type), url>>)>>
                      ELSE IF type \in {"post", "put", "patch"} /\ IsDefined(st.dataNode)
                      THEN BodyDiagnostics(ValueOf(method), ValueOf(st.dataNode))
                      ELSE <<>>
             ELSE <<>>

\* processAjaxConfigForDiagnostics(configObject, textDocument, diagnostics):
\* the list `diagnostics` with this call's diagnostics pushed onto it.
processAjaxConfigForDiagnostics(table, configObject, diags) ==
    LET st0 == [diagnostics |-> diags, encounteredProps |-> {},
                urlNode |-> undefined, typeNode |-> undefined, dataNode |-> undefined]
        st == ScanConfig(configObject.start, configObject.node.properties, 1, st0)
    IN  st.diagnostics \o UrlDiagnostics(table, st)

(***************************************************************************)
(* Snippet texts.  A text the code builds is the sequence of its pieces:   *)
(* single characters and the names and literals it copies in whole.        *)
(***************************************************************************)
Repeat(piece, n) == [k \in 1..n |-> piece]

\* JSON.stringify of an example: a string gets its quotes, a number or a
\* boolean is its literal.
JSON_stringify(example) ==
    IF example.kind = "string" THEN <<"\"">> \o example.text \o <<"\"">> ELSE example.text

\* getDefaultValue
getDefaultValue(type) ==
    CASE type = "string" -> <<"\"", "\"">>
      [] type = "number" -> <<"0">>
      [] type = "integer" -> <<"0">>
      [] type = "boolean" -> <<"t", "r", "u", "e">>
      [] type = "array" -> <<"[", "]">>
      [] type = "object" -> <<"{", "}">>
      [] OTHER -> <<"n", "u", "l", "l">>

\* prop.example !== undefined ? JSON.stringify(prop.example) : getDefaultValue(prop.type)
DefaultOnly(schema) == getDefaultValue(schema.type)
ExampleOrDefault(schema) ==
    IF IsDefined(schema.example) THEN JSON_stringify(ValueOf(schema.example))
    ELSE getDefaultValue(schema.type)

\* snippet.replace(/,\n$/, '\n')
StripLastComma(snippet) ==
    IF Len(snippet) >= 2 /\ snippet[Len(snippet) - 1] = "," /\ snippet[Len(snippet)] = "\n"
    THEN SubSeq(snippet, 1, Len(snippet) - 2) \o <<"\n">>
    ELSE snippet

\* generateDataSnippet; SnippetProps is its loop over schema.properties from
\* the k-th key on, i the placeholder counter of this call.
RECURSIVE generateDataSnippet(_, _, _)
RECURSIVE SnippetProps(_, _, _, _)
SnippetProps(schema, level, k, i) ==
    LET props == ValueOf(schema.properties) IN
    IF k > Len(props) THEN <<>>
    ELSE LET prop == props[k]
             indent == Repeat("  ", level)
             isRequired == IsDefined(schema.required) /\ Includes(ValueOf(schema.required), prop.name)
             isObject == prop.type = "object" /\ IsDefined(prop.properties)
             isArray == prop.type = "array" /\ IsDefined(prop.items)
             value == IF isObject THEN generateDataSnippet(prop, level + 1, TRUE)
                      ELSE IF isArray
                      THEN <<"[", "\n">> \o indent \o <<"  ", "  ">>
                           \o generateDataSnippet(ValueOf(prop.items), level + 2, FALSE)
                           \o <<"\n">> \o indent \o <<"  ", "]">>
                      ELSE <<"$", "{", ToString(i), ":">> \o ExampleOrDefault(prop) \o <<"}">>
         IN  indent \o <<"  ", "\"", prop.name, "\"", ":", " ">> \o value
             \o (IF isRequired THEN <<>> ELSE <<"?">>) \o <<",", "\n">>
             \o SnippetProps(schema, level, k + 1, IF isObject \/ isArray THEN i ELSE i + 1)
generateDataSnippet(schema, level, includeBraces) ==
    IF schema.type = "object" /\ IsDefined(schema.properties)
    THEN StripLastComma((IF includeBraces THEN <<"{", "\n">> ELSE <<>>)
                        \o SnippetProps(schema, level, 1, 1))
         \o (IF includeBraces THEN <<"\n">> \o Repeat("  ", level - 1) \o <<"}">> ELSE <<>>)
    ELSE IF schema.type = "array" /\ IsDefined(schema.items)
    THEN LET itemLevel == IF includeBraces THEN level + 1 ELSE level
         IN  (IF includeBraces THEN <<"[", "\n">> ELSE <<>>)
             \o Repeat("  ", itemLevel)
             \o generateDataSnippet(ValueOf(schema.items), itemLevel + 1, FALSE)
             \o <<"\n">> \o Repeat("  ", IF includeBraces THEN level ELSE level - 1) \o <<"]">>
    ELSE ExampleOrDefault(schema)

(***************************************************************************)
(* Completion: AjaxFeature.provideCompletionItems (the same decisions as   *)
(* getAjaxCompletionItems).  An item is [label, kind, insertText,          *)
(* insertTextFormat, detail]; its textEdit, which repeats insertText when  *)
(* the character before the cursor is a dot, is left out.                  *)
(***************************************************************************)
CompletionItem(label, kind, insertText, format, detail) ==
    [label |-> label, kind |-> kind, insertText |-> insertText,
     insertTextFormat |-> format, detail |-> detail]

\* JavaScript truthiness of a string | undefined: defined and not the empty
\* string (<<>> for a text held as characters, "" for a verb).
Truthy(o, empty) == IsDefined(o) /\ ValueOf(o) # empty

\* The first loop: currentUrl and currentType.
RECURSIVE ScanCurrent(_, _, _)
ScanCurrent(props, i, cur) ==
    IF i > Len(props) THEN cur
    ELSE IF props[i].kind = "PropertyAssignment" /\ props[i].name.kind = "Identifier"
    THEN LET propName == props[i].name.text
             init == props[i].initializer
         IN  ScanCurrent(props, i + 1,
                 IF propName = "url" /\ init.kind = "StringLiteral"
                 THEN [cur EXCEPT !.currentUrl = Some(init.text)]
                 ELSE IF (propName = "type" \/ propName = "method") /\ init.kind = "StringLiteral"
                 THEN [cur EXCEPT !.currentType = Some(toLowerCase(init.text))]
                 ELSE cur)
    ELSE ScanCurrent(props, i + 1, cur)

\* Object.keys(mockSwagger).map(url => ...)
UrlItemsReversed(table) ==
    [k \in 1..Len(table) |->
        CompletionItem(table[Len(table) + 1 - k].url, "Value", table[Len(table) + 1 - k].url,
                       undefined, undefined)]
UrlItems(table) ==
    [k \in 1..Len(table) |->
        CompletionItem(table[k].url, "Value", table[k].url, undefined, undefined)]

\* The own keys of a path in for..in order: every path of the tables writes
\* its verbs in this order.
VerbOrder == <<"get", "post", "put", "delete", "patch">>
PathKeys(route) == SelectSeq(VerbOrder, LAMBDA v : v \in DOMAIN route.methods)

\* for (const method in methods) { if (...) availableMethods.push(...) }
AvailableMethodsAsWritten(keys, k, availableMethods) == keys
RECURSIVE AvailableMethods(_, _, _)
AvailableMethods(keys, k, availableMethods) ==
    IF k > Len(keys) THEN availableMethods
    ELSE AvailableMethods(keys, k + 1,
            IF keys[k] # "description" /\ ~Includes(availableMethods, toUpperCase(keys[k]))
            THEN Append(availableMethods, toUpperCase(keys[k]))
            ELSE availableMethods)

VerbItems(table, url) ==
    LET swaggerUrlMatch == getMatchingSwaggerUrl(table, url)
        availableMethods ==
            IF Truthy(swaggerUrlMatch, <<>>)
            THEN AvailableMethods(PathKeys(RouteOf(table, ValueOf(swaggerUrlMatch))), 1, <<>>)
            ELSE <<>>
    IN  [k \in 1..Len(availableMethods) |->
            CompletionItem(availableMethods[k], "Value", availableMethods[k], undefined, undefined)]

\* One item of completionsForData.  The detail is the declared type followed
\* by ' (required)' or ' (optional)' in the language of the user interface.
DataItem(schema, propSchema) ==
    LET propName == propSchema.name
        isRequired == IsDefined(schema.required) /\ Includes(ValueOf(schema.required), propName)
        key == <<"\"", propName, "\"", ":", " ">>
    IN  IF propSchema.type = "object" /\ IsDefined(propSchema.properties)
        THEN CompletionItem(propName, "Property", key \o generateDataSnippet(propSchema, 2, TRUE),
                            Some("Snippet"), Some(<<"object">>))
        ELSE IF propSchema.type = "array" /\ IsDefined(propSchema.items)
        THEN CompletionItem(propName, "Property",
                            key \o <<"[", "\n", "\t", "\t", "$", "{", "1", ":">>
                                \o getDefaultValue(ValueOf(propSchema.items).type)
                                \o <<"}", "\n", "\t", "]">>,
                            Some("Snippet"), Some(<<"array">>))
        ELSE CompletionItem(propName, "Property",
                            key \o <<"$", "{", "1", ":">> \o ExampleOrDefault(propSchema) \o <<"}">>,
                            Some("Snippet"),
                            Some(<<propSchema.type, IF isRequired THEN " (required)" ELSE " (optional)">>))

\* The data branch, once the cursor is in the value position: the items it
\* returns, if it returns.
DataItems(table, cur) ==
    IF Truthy(cur.currentUrl, <<>>) /\ Truthy(cur.currentType, "")
       /\ ValueOf(cur.currentType) \in {"post", "put", "patch"}
    THEN LET swaggerUrlMatch == getMatchingSwaggerUrl(table, ValueOf(cur.currentUrl))
             method == IF Truthy(swaggerUrlMatch, <<>>)
                       THEN PathMember(RouteOf(table, ValueOf(swaggerUrlMatch)), ValueOf(cur.currentType))
                       ELSE undefined
             bodyParam == IF IsDefined(method) THEN BodyParamOf(ValueOf(method)) ELSE undefined
             schema == IF IsDefined(bodyParam) THEN ValueOf(bodyParam).schema ELSE undefined
         IN  IF IsDefined(schema) /\ IsDefined(ValueOf(schema).properties)
             THEN LET properties == ValueOf(ValueOf(schema).properties)
                  IN  Some([k \in 1..Len(properties) |-> DataItem(ValueOf(schema), properties[k])])
             ELSE undefined
    ELSE undefined

\* The second loop, from the i-th property on: the items of the value rule
\* that returns, if one does.
RECURSIVE ValueItems(_, _, _, _, _)
ValueItems(table, configObject, offset, cur, i) ==
    LET props == configObject.node.properties IN
    IF i > Len(props) THEN undefined
    ELSE LET prop == props[i]
             propName == prop.name.text
             initializer == LocatedInitializer(configObject.start, props, i)
             name == LocatedName(configObject.start, props, i)
             returned ==
                 IF prop.kind = "PropertyAssignment" /\ prop.name.kind = "Identifier"
                 THEN IF prop.initializer.kind = "StringLiteral"
                      THEN IF offset > initializer.start /\ offset <= initializer.end
                           THEN IF propName = "url" THEN Some(UrlItems(table))
                                ELSE IF (propName = "type" \/ propName = "method") /\ Truthy(cur.currentUrl, <<>>)
                                THEN Some(VerbItems(table, ValueOf(cur.currentUrl)))
                                ELSE undefined
                           ELSE undefined
                      ELSE IF propName = "data"
                      THEN IF offset >= name.end + 1 /\ offset <= initializer.end + 1
                           THEN DataItems(table, cur)
                           ELSE undefined
                      ELSE undefined
                 ELSE undefined
         IN  IF IsDefined(returned) THEN returned
             ELSE ValueItems(table, configObject, offset, cur, i + 1)

potentialProps == <<"url", "type", "method", "data", "success", "error", "complete">>

\* One item of the property-name rule.
PropertyItem(prop) ==
    IF prop = "url"
    THEN CompletionItem(prop, "Snippet", <<prop, ":", " ", "\"", "$", "{", "1", "}", "\"">>,
                        Some("Snippet"), Some(<<"request URL">>))
    ELSE IF prop = "type" \/ prop = "method"
    THEN CompletionItem(prop, "Snippet", <<prop, ":", " ", "\"", "$", "{", "1", "}", "\"">>,
                        Some("Snippet"), Some(<<"HTTP method">>))
    ELSE IF prop = "data"
    THEN CompletionItem(prop, "Snippet", <<prop, ":", " ", "{", "\n", "\t", "$", "{", "1", "}", "\n", "}">>,
                        Some("Snippet"), Some(<<"request data (body)">>))
    ELSE IF prop = "success" \/ prop = "error" \/ prop = "complete"
    THEN CompletionItem(prop, "Snippet",
                        <<prop, ":", " ", "(", "$", "{", "1", "}", ")", " ", "=", ">", " ", "{",
                          "\n", "\t", "$", "{", "0", "}", "\n", "}">>,
                        Some("Snippet"), Some(<<prop, " callback">>))
    ELSE CompletionItem(prop, "Property", <<prop, ":", " ", "$", "{", "1", "}">>,
                        Some("Snippet"), undefined)

\* if (offset > configObjectStart && offset < configObjectEnd) { ... }
PropertyItems(configObject, offset) ==
    IF offset > configObject.start /\ offset < configObject.end
    THEN LET existingProps == DataPropertyNames(configObject.node.properties)
             offered == SelectSeq(potentialProps, LAMBDA prop : ~Includes(existingProps, prop))
         IN  [k \in 1..Len(offered) |-> PropertyItem(offered[k])]
    ELSE <<>>

provideCompletionItems(table, configObject, offset) ==
    LET cur == ScanCurrent(configObject.node.properties, 1,
                           [currentUrl |-> undefined, currentType |-> undefined])
        returned == ValueItems(table, configObject, offset, cur, 1)
    IN  IF IsDefined(returned) THEN ValueOf(returned)
        ELSE PropertyItems(configObject, offset)

(***************************************************************************)
(* Recogniser harness: a node is chosen and handed to matches.             *)
(***************************************************************************)
ArgKinds == {"ObjectLiteralExpression", "StringLiteral", "Identifier"}
Arguments == UNION {[1..k -> [kind : ArgKinds]] : k \in 0..MaxArgs}

Nodes ==
    {Call(k, Callee(ck, Leaf(rk, rt), Leaf(nk, nt)), args) :
        k \in {"CallExpression", "NewExpression"},
        ck \in {"PropertyAccessExpression", "ElementAccessExpression"},
        rk \in {"Identifier", "StringLiteral"},
        rt \in {"$", "jQuery", "jquery", "$$"},
        nk \in {"Identifier", "PrivateIdentifier"},
        nt \in {"ajax", "Ajax", "get"},
        args \in Arguments}

InitNode ==
    /\ mockSwagger = SwaggerTable
    /\ currentUrl = <<>>
    /\ urlMatch = NotCalled
    /\ urlMatchSlash = NotCalled
    /\ node \in {Some(n) : n \in Nodes}
    /\ nodeMatches = NotCalled
    /\ document = undefined
    /\ diagnostics = <<>>
    /\ passes = 0
    /\ completion = NotCalled
    /\ IdleSnippet /\ IdleManager /\ IdleWorkspace

VisitNode ==
    /\ IsDefined(node)
    /\ nodeMatches = NotCalled
    /\ nodeMatches' = Returned(matches(ValueOf(node)))
    /\ UNCHANGED <<snippetVars, managerVars, workspaceVars>>
    /\ UNCHANGED <<mockSwagger, currentUrl, urlMatch, urlMatchSlash, node,
                   document, diagnostics, passes, completion>>

NextNode == VisitNode

SpecNode == InitNode /\ [][NextNode]_vars

\* C4: matches(node) is true exactly when node is a call expression whose callee
\* is a property access <id>.ajax, <id> an identifier spelled '$' or 'jQuery',
\* with at least one argument, the first an object literal.
C4_MatchesExactlyAjaxCalls ==
    nodeMatches # NotCalled =>
        LET n == ValueOf(node)
            isAjaxCall ==
                /\ n.kind = "CallExpression"
                /\ n.expression.kind = "PropertyAccessExpression"
                /\ n.expression.expression \in {Leaf("Identifier", "$"), Leaf("Identifier", "jQuery")}
                /\ n.expression.name = Leaf("Identifier", "ajax")
                /\ n.arguments # <<>>
                /\ Head(n.arguments) = [kind |-> "ObjectLiteralExpression"]
        IN  nodeMatches[2] = isAjaxCall

\* C4 witness: jQuery.ajax({...}, x) has been visited and recognised.
C4_Witness ==
    /\ nodeMatches = Returned(TRUE)
    /\ ValueOf(node).expression.expression.text = "jQuery"
    /\ Len(ValueOf(node).arguments) = 2


(***************************************************************************)
(* The server.  A document is one statement recv.ajax({...}), held as      *)
(* [receiver, properties, closed]; closed tells whether the text ends with *)
(* the call's closing parenthesis.  validateTextDocument parses the text,  *)
(* visits the call and sends the diagnostics of the pass.                  *)
(***************************************************************************)
CallNode(doc) ==
    Call("CallExpression",
         Callee("PropertyAccessExpression", Leaf("Identifier", doc.receiver),
                Leaf("Identifier", "ajax")),
         <<[kind |-> "ObjectLiteralExpression"]>>)

\* call.arguments[0], which starts after "recv.ajax(".
ConfigObject(doc) ==
    Located(ObjectLit(doc.properties), Len(doc.receiver) + Len(".ajax("),
            ValueWidth(ObjectLit(doc.properties)))

\* The config objects of the $.ajax calls nested in the callbacks of a
\* config object, from its i-th property on, in the order the visit meets
\* them (a call before the calls inside it).
RECURSIVE NestedConfigs(_, _)
NestedConfigs(configObject, i) ==
    LET props == configObject.node.properties IN
    IF i > Len(props) THEN <<>>
    ELSE IF props[i].kind = "PropertyAssignment" /\ props[i].initializer.kind = "ArrowFunction"
    THEN LET callback == LocatedInitializer(configObject.start, props, i)
             inner == Located(ObjectLit(callback.node.properties),
                              callback.start + Len(callback.node.text),
                              ValueWidth(ObjectLit(callback.node.properties)))
         IN  <<inner>> \o NestedConfigs(inner, 1) \o NestedConfigs(configObject, i + 1)
    ELSE NestedConfigs(configObject, i + 1)

\* The visit goes on into the children of a call: the nested calls add their
\* diagnostics to the same array.
RECURSIVE NestedDiagnostics(_, _, _, _)
NestedDiagnostics(table, configs, k, found) ==
    IF k > Len(configs) THEN found
    ELSE NestedDiagnostics(table, configs, k + 1,
                           processAjaxConfigForDiagnostics(table, configs[k], found))

validateTextDocumentAppending(table, doc) ==
    NestedDiagnostics(table, NestedConfigs(ConfigObject(doc), 1), 1,
                      IF matches(CallNode(doc))
                      THEN processAjaxConfigForDiagnostics(table, ConfigObject(doc), diagnostics)
                      ELSE diagnostics)
validateTextDocument(table, doc) ==
    NestedDiagnostics(table, NestedConfigs(ConfigObject(doc), 1), 1,
                      IF matches(CallNode(doc))
                      THEN processAjaxConfigForDiagnostics(table, ConfigObject(doc), <<>>)
                      ELSE <<>>)

Receivers == {"$", "axios"}

UrlValues == {StringLit(<<"/", "u">>), StringLit(<<"/", "x">>),
              StringLit(<<"/", "u", "/", "s">>), Ident(<<"v">>)}
TypeProps == {Assign("type", StringLit("POST")), Assign("method", StringLit("put")),
              Assign("type", StringLit("GET")), Assign("type", StringLit("constructor")),
              Assign("type", Ident(<<"v">>))}
DataValues == {ObjectLit(<<>>), ObjectLit(<<Assign("age", StringLit(<<"s">>))>>),
               Ident(<<"v">>)}

\* The properties a user types into the configuration object.
ConfigProps ==
    {Assign("url", v) : v \in UrlValues} \cup {Shorthand("url")}
    \cup TypeProps
    \cup {Assign("data", v) : v \in DataValues}
    \cup {Assign("success", Ident(<<"f">>))}

\* The members a user types into the data object.
DataProps ==
    { Assign("username", StringLit(<<"s">>)),
      Assign("age", NumLit(<<"3", "0">>)), Assign("age", NumLit(<<"3", ".", "5">>)),
      Assign("age", StringLit(<<"s">>)), Assign("bogus", NumLit(<<"1">>)),
      QuotedAssign("email", StringLit(<<"s">>)), QuotedAssign("bogus", NumLit(<<"1">>)),
      QuotedAssign("age", StringLit(<<"s">>)),
      Shorthand("username"), Assign("username", Ident(<<"v">>)),
      Assign("price", NumLit(<<"9">>)), Assign("price", NumLit(<<"9", ".", "5">>)),
      Assign("name", TrueKw),
      Assign("category", ArrayLit), Assign("optionalUserInfo", ObjectLit(<<>>)) }

Idle ==
    /\ currentUrl = <<>>
    /\ urlMatch = NotCalled
    /\ urlMatchSlash = NotCalled
    /\ node = undefined
    /\ nodeMatches = NotCalled

Init ==
    /\ mockSwagger = SwaggerTable
    /\ Idle
    /\ document = undefined
    /\ diagnostics = <<>>
    /\ passes = 0
    /\ completion = NotCalled
    /\ IdleSnippet /\ IdleManager /\ IdleWorkspace

\* documents.onDidOpen: a document with an empty configuration object is opened.
DidOpen(receiver) ==
    /\ ~IsDefined(document)
    /\ document' = Some([receiver |-> receiver, properties |-> <<>>, closed |-> TRUE])
    /\ diagnostics' = validateTextDocument(mockSwagger, ValueOf(document'))
    /\ passes' = 1
    /\ completion' = NotCalled
    /\ UNCHANGED <<snippetVars, managerVars, workspaceVars>>
    /\ UNCHANGED <<mockSwagger, currentUrl, urlMatch, urlMatchSlash, node, nodeMatches>>

\* documents.onDidChangeContent: a property is typed at the end of the
\* configuration object.
DidChangeContent(prop) ==
    /\ IsDefined(document)
    /\ Len(ValueOf(document).properties) < MaxProps
    /\ document' = Some([ValueOf(document) EXCEPT !.properties = Append(@, prop)])
    /\ diagnostics' = validateTextDocument(mockSwagger, ValueOf(document'))
    /\ passes' = 1
    /\ completion' = NotCalled
    /\ UNCHANGED <<snippetVars, managerVars, workspaceVars>>
    /\ UNCHANGED <<mockSwagger, currentUrl, urlMatch, urlMatchSlash, node, nodeMatches>>

Next ==
    \/ \E receiver \in Receivers : DidOpen(receiver)
    \/ \E prop \in ConfigProps : DidChangeContent(prop)

Spec == Init /\ [][Next]_vars

(***************************************************************************)
(* Body editing: the document $.ajax({url:U,type:T,data:{}}) is open and   *)
(* the user types members into the data object.                            *)
(***************************************************************************)
BodyDocuments ==
    {[receiver |-> "$",
      properties |-> <<Assign("url", StringLit(u)), t, Assign("data", ObjectLit(<<>>))>>,
      closed |-> TRUE] :
        u \in {<<"/", "u">>, <<"/", "u", "/", "s">>, <<"/", "p">>},
        t \in {Assign("type", StringLit("POST")), Assign("method", StringLit("put"))}}

\* Documents that assign url, the verb or data twice; the data object the user
\* types into is the last property.
RepeatedDocuments ==
    {[receiver |-> "$", properties |-> ps, closed |-> TRUE] :
        ps \in {<<Assign("url", StringLit(<<"/", "x">>)), Assign("url", StringLit(<<"/", "u">>)),
                  Assign("type", StringLit("POST")), Assign("data", ObjectLit(<<>>))>>,
                <<Assign("url", StringLit(<<"/", "u">>)), Assign("type", StringLit("GET")),
                  Assign("method", StringLit("POST")), Assign("data", ObjectLit(<<>>))>>,
                <<Assign("url", StringLit(<<"/", "u">>)), Assign("type", StringLit("POST")),
                  Assign("data", ObjectLit(<<Assign("bogus", NumLit(<<"1">>))>>)),
                  Assign("data", ObjectLit(<<>>))>>}}

InitBody ==
    /\ mockSwagger = SwaggerTable
    /\ Idle
    /\ document \in {Some(d) : d \in BodyDocuments \cup RepeatedDocuments}
    /\ diagnostics = validateTextDocument(mockSwagger, ValueOf(document))
    /\ passes = 1
    /\ completion = NotCalled
    /\ IdleSnippet /\ IdleManager /\ IdleWorkspace

\* documents.onDidChangeContent: a member is typed at the end of the data object,
\* the last property of the configuration.
DidChangeData(member) ==
    /\ IsDefined(document)
    /\ LET props == ValueOf(document).properties
           data == props[Len(props)].initializer
       IN  /\ Len(data.properties) < MaxDataProps
           /\ document' = Some([ValueOf(document) EXCEPT
                    !.properties[Len(props)].initializer.properties = Append(@, member)])
    /\ diagnostics' = validateTextDocument(mockSwagger, ValueOf(document'))
    /\ passes' = 1
    /\ completion' = NotCalled
    /\ UNCHANGED <<snippetVars, managerVars, workspaceVars>>
    /\ UNCHANGED <<mockSwagger, currentUrl, urlMatch, urlMatchSlash, node, nodeMatches>>

NextBody == \E member \in DataProps : DidChangeData(member)

SpecBody == InitBody /\ [][NextBody]_vars

(***************************************************************************)
(* Completion requests.  ts.createSourceFile never fails: for a text whose *)
(* closing parenthesis is missing it reports the missing token in the      *)
(* tree's parse diagnostics, which the server does not read, and returns   *)
(* the same call expression, so CallNode and ConfigObject serve both       *)
(* texts.                                                                  *)
(***************************************************************************)
\* document.getText().length
TextLength(doc) ==
    Len(doc.receiver) + Len(".ajax(") + ValueWidth(ObjectLit(doc.properties))
        + (IF doc.closed THEN 1 ELSE 0)

\* completions.push(...) of the nested calls, from the k-th on.
RECURSIVE NestedItems(_, _, _, _)
NestedItems(table, configs, offset, k) ==
    IF k > Len(configs) THEN <<>>
    ELSE (IF offset >= configs[k].start /\ offset <= configs[k].end
          THEN provideCompletionItems(table, configs[k], offset)
          ELSE <<>>)
         \o NestedItems(table, configs, offset, k + 1)

\* The handler of connection.onCompletion, for the document's text: the
\* visit handles the call and then goes on into its children.
onCompletion(table, doc, offset) ==
    LET configObject == ConfigObject(doc)
    IN  (IF matches(CallNode(doc)) /\ offset >= configObject.start /\ offset <= configObject.end
         THEN provideCompletionItems(table, configObject, offset)
         ELSE <<>>)
        \o NestedItems(table, NestedConfigs(configObject, 1), offset, 1)

Response(offset, items) == Returned([offset |-> offset, items |-> items])
Accepted(item) == <<"accepted", item>>

\* connection.onCompletion: the cursor is at `offset` of the open document.
\* The handler keeps nothing between requests; `completion` holds the answer
\* to one request per version of the text.
OnCompletion(offset) ==
    /\ IsDefined(document)
    /\ completion = NotCalled
    /\ offset <= TextLength(ValueOf(document))
    /\ completion' = Response(offset, onCompletion(mockSwagger, ValueOf(document), offset))
    /\ UNCHANGED <<snippetVars, managerVars, workspaceVars>>
    /\ UNCHANGED <<mockSwagger, currentUrl, urlMatch, urlMatchSlash, node, nodeMatches,
                   document, diagnostics, passes>>

\* The properties a user types while asking for completions.
CompletionProps ==
    { Assign("url", StringLit(<<"/", "u">>)), Assign("url", StringLit(<<"/", "x">>)),
      Assign("url", StringLit(<<>>)), Shorthand("url"),
      Assign("type", StringLit("POST")), Assign("method", StringLit("put")),
      Assign("data", ObjectLit(<<>>)), Assign("data", StringLit(<<"s">>)) }

\* The longest text of the completion sessions.
Offsets == 0..(Len("$.ajax()") + 2 + MaxProps * Len("method:\"put\","))

NextComplete ==
    \/ DidOpen("$")
    \/ \E prop \in CompletionProps : DidChangeContent(prop)
    \/ \E offset \in Offsets : OnCompletion(offset)

SpecComplete == Init /\ [][NextComplete]_vars

(***************************************************************************)
(* Sessions on a complete request: a document with url, verb and data is   *)
(* opened, validated again without a change, asked for completions, has a  *)
(* URL completion applied, or loses its closing parenthesis.               *)
(***************************************************************************)
MaxPasses == 2

SessionTables == {SwaggerTable, TestSwagger, PlainSwagger}

SessionDocuments ==
    {[receiver |-> "$",
      properties |-> <<Assign("url", StringLit(u)), Assign("type", StringLit(t)), Assign("data", d)>>,
      closed |-> TRUE] :
        u \in {<<"/", "u">>, <<"/", "o">>, <<"/", "p", "/", "s", "/", "r">>, <<"/", "x">>},
        t \in {"POST", "patch", "GET"},
        d \in {ObjectLit(<<>>), ObjectLit(<<Assign("age", StringLit(<<"s">>))>>),
                StringLit(<<"s">>)}}

InitSession ==
    /\ mockSwagger \in SessionTables
    /\ Idle
    /\ document = undefined
    /\ diagnostics = <<>>
    /\ passes = 0
    /\ completion = NotCalled
    /\ IdleSnippet /\ IdleManager /\ IdleWorkspace

\* documents.onDidOpen: a document with this text is opened.
DidOpenText(doc) ==
    /\ ~IsDefined(document)
    /\ document' = Some(doc)
    /\ diagnostics' = validateTextDocument(mockSwagger, doc)
    /\ passes' = 1
    /\ completion' = NotCalled
    /\ UNCHANGED <<snippetVars, managerVars, workspaceVars>>
    /\ UNCHANGED <<mockSwagger, currentUrl, urlMatch, urlMatchSlash, node, nodeMatches>>

\* documents.onDidChangeContent for a text that did not change (the event
\* also follows onDidOpen): one more validation pass.
Revalidate ==
    /\ IsDefined(document)
    /\ passes < MaxPasses
    /\ diagnostics' = validateTextDocument(mockSwagger, ValueOf(document))
    /\ passes' = passes + 1
    /\ UNCHANGED <<snippetVars, managerVars, workspaceVars>>
    /\ UNCHANGED <<mockSwagger, currentUrl, urlMatch, urlMatchSlash, node, nodeMatches,
                   document, completion>>

\* The string literals of url that hold the cursor of the answered request.
UrlLiteralsAt(doc, offset) ==
    {i \in 1..Len(doc.properties) :
        /\ doc.properties[i].kind = "PropertyAssignment"
        /\ doc.properties[i].name = Leaf("Identifier", "url")
        /\ doc.properties[i].initializer.kind = "StringLiteral"
        /\ offset > LocatedInitializer(ConfigObject(doc).start, doc.properties, i).start
        /\ offset <= LocatedInitializer(ConfigObject(doc).start, doc.properties, i).end}

\* The client applies the k-th item offered inside a url literal: the
\* literal's text becomes the item's insertText, and the change is validated
\* (documents.onDidChangeContent).
AcceptUrlCompletion(k) ==
    /\ IsDefined(document)
    /\ completion # NotCalled /\ completion[1] = "returned"
    /\ UrlLiteralsAt(ValueOf(document), completion[2].offset) # {}
    /\ k \in 1..Len(completion[2].items)
    /\ LET i == CHOOSE i \in UrlLiteralsAt(ValueOf(document), completion[2].offset) : TRUE
           item == completion[2].items[k]
       IN  /\ document' = Some([ValueOf(document) EXCEPT
                                   !.properties[i].initializer.text = item.insertText])
           /\ completion' = Accepted(item)
    /\ diagnostics' = validateTextDocument(mockSwagger, ValueOf(document'))
    /\ passes' = 1
    /\ UNCHANGED <<snippetVars, managerVars, workspaceVars>>
    /\ UNCHANGED <<mockSwagger, currentUrl, urlMatch, urlMatchSlash, node, nodeMatches>>

\* documents.onDidChangeContent: the closing parenthesis of the call is
\* deleted, which leaves a text that does not parse without errors.
DeleteClosingParenthesis ==
    /\ IsDefined(document)
    /\ ValueOf(document).closed
    /\ document' = Some([ValueOf(document) EXCEPT !.closed = FALSE])
    /\ diagnostics' = validateTextDocument(mockSwagger, ValueOf(document'))
    /\ passes' = 1
    /\ completion' = NotCalled
    /\ UNCHANGED <<snippetVars, managerVars, workspaceVars>>
    /\ UNCHANGED <<mockSwagger, currentUrl, urlMatch, urlMatchSlash, node, nodeMatches>>

SessionOffsets == 0..(Len("$.ajax({url:\"/p/{i}/r\",type:\"patch\",data:{age:\"s\"}})"))

NextSession ==
    \/ \E doc \in SessionDocuments : DidOpenText(doc)
    \/ Revalidate
    \/ \E offset \in SessionOffsets : OnCompletion(offset)
    \/ \E k \in 1..Len(SwaggerTable) : AcceptUrlCompletion(k)
    \/ DeleteClosingParenthesis

SpecSession == InitSession /\ [][NextSession]_vars

(***************************************************************************)
(* Sessions on a call nested in a callback of another call.                *)
(***************************************************************************)
NestedDocuments ==
    {[receiver |-> r,
      properties |-> <<Assign("url", StringLit(<<"/", "u">>)), Assign("success", Callback(inner))>>,
      closed |-> TRUE] :
        r \in {"$", "axios"},
        inner \in {<<>>,
                   <<Assign("url", StringLit(<<"/", "o">>))>>,
                   <<Assign("url", StringLit(<<"/", "o">>)), Assign("type", StringLit("POST")),
                     Assign("data", ObjectLit(<<>>))>>,
                   <<Assign("url", StringLit(<<"/", "o">>)), Assign("error", Callback(<<>>))>>}}

\* The longest text of these sessions.
NestedOffsets == 0..Len("$.ajax({url:\"/u\",success:()=>{$.ajax({url:\"/o\",type:\"POST\",data:{}})}})")

NextNested ==
    \/ \E doc \in NestedDocuments : DidOpenText(doc)
    \/ \E offset \in NestedOffsets : OnCompletion(offset)

SpecNested == InitSession /\ [][NextNested]_vars

(***************************************************************************)
(* Snippet harness: a schema is chosen and handed to generateDataSnippet.   *)
(* The schemas are the object schemas over a few properties (two leaves, an *)
(* object, an object holding an object, an array of objects), with keys     *)
(* that differ as the keys of an object do, and body schemas of the table.  *)
(***************************************************************************)
SchemaProps ==
    LET a == PropEx("a", "string", Example("string", <<"x">>))
        b == Prop("b", "integer")
        c == ObjectProp("c", <<a, b>>, <<"a">>)
    IN  {a, b, c, ObjectProp("d", <<c, b>>, <<>>), ArrayProp("e", ObjectProp("", <<a, b>>, <<"b">>))}

SnippetSchemas ==
    {ObjectProp("", props, <<props[1].name>>) :
        props \in {ps \in UNION {[1..n -> SchemaProps] : n \in 1..MaxSchemaProps} :
                      \A i, j \in DOMAIN ps : ps[i].name = ps[j].name => i = j}}
    \cup {ObjectProp("", ValueOf(body.properties), ValueOf(body.required)) :
            body \in {UserCreateSchema, OrderCreateSchema, ReviewCreateSchema}}

InitSnippet ==
    /\ mockSwagger = SwaggerTable
    /\ Idle
    /\ document = undefined
    /\ diagnostics = <<>>
    /\ passes = 0
    /\ completion = NotCalled
    /\ dataSchema \in {Some(s) : s \in SnippetSchemas}
    /\ dataSnippet = NotCalled
    /\ IdleManager /\ IdleWorkspace

\* generateDataSnippet(schema, level, includeBraces) is called.
GenerateDataSnippet(level, includeBraces) ==
    /\ dataSnippet = NotCalled
    /\ dataSnippet' = Returned([level |-> level, includeBraces |-> includeBraces,
                                text |-> generateDataSnippet(ValueOf(dataSchema), level, includeBraces)])
    /\ UNCHANGED <<serverVars, dataSchema, managerVars, workspaceVars>>

NextSnippet == \E level \in 1..2, includeBraces \in BOOLEAN : GenerateDataSnippet(level, includeBraces)

SpecSnippet == InitSnippet /\ [][NextSnippet]_vars

(***************************************************************************)
(* FeatureManager and the two dispatchers.                                  *)
(*                                                                         *)
(* A feature is what the manager and the dispatchers see of it: the         *)
(* capabilities it implements, the kinds getSupportedNodeTypes() returns,   *)
(* and the nodes its matches() accepts.  A document is the sequence of its  *)
(* nodes in the order ts.forEachChild visits them (parent before children, *)
(* children left to right), which is the same in both dispatchers.          *)
(***************************************************************************)
Feature(name, completes, diagnoses, nodeTypes, matchedKinds, ajaxOnly) ==
    [name |-> name, provideCompletionItems |-> completes, provideDiagnostics |-> diagnoses,
     getSupportedNodeTypes |-> nodeTypes, matchedKinds |-> matchedKinds, ajaxOnly |-> ajaxOnly]

AstNode(kind, ajax) == [kind |-> kind, ajax |-> ajax]

\* feature.matches(node)
FeatureMatches(feature, n) ==
    /\ n.kind \in feature.matchedKinds
    /\ feature.ajaxOnly => n.ajax

\* AjaxFeature; a diagnostic feature for two kinds; a feature that matches a
\* kind it does not declare; a feature that declares a kind it never matches.
LanguageServerFeatures ==
    {Feature("ajax", TRUE, TRUE, <<"CallExpression">>, {"CallExpression"}, TRUE),
     Feature("names", FALSE, TRUE, <<"Identifier", "StringLiteral">>, {"Identifier", "StringLiteral"}, FALSE),
     Feature("calls", TRUE, TRUE, <<"CallExpression">>, {"CallExpression", "Identifier"}, FALSE),
     Feature("literals", TRUE, TRUE, <<"StringLiteral", "CallExpression">>, {"StringLiteral"}, FALSE)}

\* $.ajax({url:"/x"})   f(x)   x
DispatchDocuments ==
    {<<AstNode("ExpressionStatement", FALSE), AstNode("CallExpression", TRUE),
       AstNode("PropertyAccessExpression", FALSE), AstNode("Identifier", FALSE), AstNode("Identifier", FALSE),
       AstNode("ObjectLiteralExpression", FALSE), AstNode("PropertyAssignment", FALSE),
       AstNode("Identifier", FALSE), AstNode("StringLiteral", FALSE)>>,
     <<AstNode("ExpressionStatement", FALSE), AstNode("CallExpression", FALSE),
       AstNode("Identifier", FALSE), AstNode("Identifier", FALSE)>>,
     <<AstNode("ExpressionStatement", FALSE), AstNode("Identifier", FALSE)>>}

\* register() that leaves the cached tables as they are.
registerKeepingCaches(manager, feature) ==
    [manager EXCEPT !.features = Append(manager.features, feature)]

register(manager, feature) ==
    [features |-> Append(manager.features, feature),
     completionFeaturesByNodeType |-> undefined,
     diagnosticFeaturesByNodeType |-> undefined]

getCompletionFeatures(fs) == SelectSeq(fs, LAMBDA f : f.provideCompletionItems)
getDiagnosticFeatures(fs) == SelectSeq(fs, LAMBDA f : f.provideDiagnostics)

\* A Map is a function on its keys (new Map() is the empty one, map.has(key)
\* is key \in DOMAIN map); map.set(key, value):
MapSet(map, key, value) == [k \in DOMAIN map \cup {key} |-> IF k = key THEN value ELSE map[k]]

\* The table builder with the feature put in front of the kind's list.
RECURSIVE PushFirstByNodeType(_, _, _, _)
PushFirstByNodeType(map, feature, nodeTypes, k) ==
    IF k > Len(nodeTypes) THEN map
    ELSE LET nodeType == nodeTypes[k]
             withKey == IF nodeType \notin DOMAIN map THEN MapSet(map, nodeType, <<>>) ELSE map
         IN  PushFirstByNodeType(MapSet(withKey, nodeType, <<feature>> \o withKey[nodeType]),
                                 feature, nodeTypes, k + 1)

\* for (const nodeType of nodeTypes) { ... get(nodeType)!.push(feature) }
RECURSIVE PushByNodeType(_, _, _, _)
PushByNodeType(map, feature, nodeTypes, k) ==
    IF k > Len(nodeTypes) THEN map
    ELSE LET nodeType == nodeTypes[k]
             withKey == IF nodeType \notin DOMAIN map THEN MapSet(map, nodeType, <<>>) ELSE map
         IN  PushByNodeType(MapSet(withKey, nodeType, Append(withKey[nodeType], feature)),
                            feature, nodeTypes, k + 1)

\* for (const feature of ...Features) { ... }
RECURSIVE GroupByNodeType(_, _, _)
GroupByNodeType(map, fs, i) ==
    IF i > Len(fs) THEN map
    ELSE GroupByNodeType(PushByNodeType(map, fs[i], fs[i].getSupportedNodeTypes, 1), fs, i + 1)

\* The getters: the cached table, built first when there is none.
getCompletionFeaturesByNodeType(manager) ==
    IF ~IsDefined(manager.completionFeaturesByNodeType)
    THEN Some(GroupByNodeType(<<>>, getCompletionFeatures(manager.features), 1))
    ELSE manager.completionFeaturesByNodeType

getDiagnosticFeaturesByNodeType(manager) ==
    IF ~IsDefined(manager.diagnosticFeaturesByNodeType)
    THEN Some(GroupByNodeType(<<>>, getDiagnosticFeatures(manager.features), 1))
    ELSE manager.diagnosticFeaturesByNodeType

\* for (const feature of fs) if (feature.matches(node)) feature.provide...(node, ...):
\* the invocations at the node visited p-th, in order.
Invocations(fs, n, p) ==
    LET matching == SelectSeq(fs, LAMBDA f : FeatureMatches(f, n))
    IN  [j \in 1..Len(matching) |-> [feature |-> matching[j].name, node |-> p]]

\* The full-scan dispatcher: every feature of the capability at every node.
RECURSIVE FullScanDispatch(_, _, _)
FullScanDispatch(fs, doc, p) ==
    IF p > Len(doc) THEN <<>>
    ELSE Invocations(fs, doc[p], p) \o FullScanDispatch(fs, doc, p + 1)

\* The kind-indexed dispatcher: nodeTypeToFeatures.get(node.kind) || [].
RECURSIVE IndexedDispatch(_, _, _)
IndexedDispatch(nodeTypeToFeatures, doc, p) ==
    IF p > Len(doc) THEN <<>>
    ELSE LET relevantFeatures == IF doc[p].kind \in DOMAIN nodeTypeToFeatures
                                 THEN nodeTypeToFeatures[doc[p].kind] ELSE <<>>
         IN  Invocations(relevantFeatures, doc[p], p) \o IndexedDispatch(nodeTypeToFeatures, doc, p + 1)

FeatureManager ==
    [features |-> features,
     completionFeaturesByNodeType |-> completionFeaturesByNodeType,
     diagnosticFeaturesByNodeType |-> diagnosticFeaturesByNodeType]

InitManager ==
    /\ mockSwagger = SwaggerTable
    /\ Idle
    /\ document = undefined
    /\ diagnostics = <<>>
    /\ passes = 0
    /\ completion = NotCalled
    /\ IdleSnippet /\ IdleManager /\ IdleWorkspace

\* featureManager.register(feature); what the dispatchers did under the
\* earlier registrations is forgotten.
Register(feature) ==
    /\ Len(features) < MaxFeatures
    /\ LET after == register(FeatureManager, feature)
       IN  /\ features' = after.features
           /\ completionFeaturesByNodeType' = after.completionFeaturesByNodeType
           /\ diagnosticFeaturesByNodeType' = after.diagnosticFeaturesByNodeType
    /\ dispatched' = NothingDispatched
    /\ UNCHANGED <<serverVars, snippetVars, workspaceVars>>

GetCompletionFeaturesByNodeType ==
    /\ completionFeaturesByNodeType' = getCompletionFeaturesByNodeType(FeatureManager)
    /\ UNCHANGED <<features, diagnosticFeaturesByNodeType, dispatched>>
    /\ UNCHANGED <<serverVars, snippetVars, workspaceVars>>

GetDiagnosticFeaturesByNodeType ==
    /\ diagnosticFeaturesByNodeType' = getDiagnosticFeaturesByNodeType(FeatureManager)
    /\ UNCHANGED <<features, completionFeaturesByNodeType, dispatched>>
    /\ UNCHANGED <<serverVars, snippetVars, workspaceVars>>

\* onCompletion of the full-scan server.
OnCompletionFullScan(doc) ==
    /\ dispatched' = [dispatched EXCEPT !["completion scan"] =
            Returned([document |-> doc, calls |-> FullScanDispatch(getCompletionFeatures(features), doc, 1)])]
    /\ UNCHANGED <<features, completionFeaturesByNodeType, diagnosticFeaturesByNodeType>>
    /\ UNCHANGED <<serverVars, snippetVars, workspaceVars>>

\* onCompletion of the kind-indexed server.
OnCompletionIndexed(doc) ==
    /\ completionFeaturesByNodeType' = getCompletionFeaturesByNodeType(FeatureManager)
    /\ dispatched' = [dispatched EXCEPT !["completion indexed"] =
            Returned([document |-> doc,
                      calls |-> IndexedDispatch(ValueOf(completionFeaturesByNodeType'), doc, 1)])]
    /\ UNCHANGED <<features, diagnosticFeaturesByNodeType>>
    /\ UNCHANGED <<serverVars, snippetVars, workspaceVars>>

\* validateTextDocument of the full-scan server.
ValidateFullScan(doc) ==
    /\ dispatched' = [dispatched EXCEPT !["diagnostics scan"] =
            Returned([document |-> doc, calls |-> FullScanDispatch(getDiagnosticFeatures(features), doc, 1)])]
    /\ UNCHANGED <<features, completionFeaturesByNodeType, diagnosticFeaturesByNodeType>>
    /\ UNCHANGED <<serverVars, snippetVars, workspaceVars>>

\* validateTextDocument of the kind-indexed server.
ValidateIndexed(doc) ==
    /\ diagnosticFeaturesByNodeType' = getDiagnosticFeaturesByNodeType(FeatureManager)
    /\ dispatched' = [dispatched EXCEPT !["diagnostics indexed"] =
            Returned([document |-> doc,
                      calls |-> IndexedDispatch(ValueOf(diagnosticFeaturesByNodeType'), doc, 1)])]
    /\ UNCHANGED <<features, completionFeaturesByNodeType>>
    /\ UNCHANGED <<serverVars, snippetVars, workspaceVars>>

NextManager ==
    \/ \E feature \in LanguageServerFeatures : Register(feature)
    \/ GetCompletionFeaturesByNodeType
    \/ GetDiagnosticFeaturesByNodeType
    \/ \E doc \in DispatchDocuments : OnCompletionFullScan(doc)
    \/ \E doc \in DispatchDocuments : OnCompletionIndexed(doc)
    \/ \E doc \in DispatchDocuments : ValidateFullScan(doc)
    \/ \E doc \in DispatchDocuments : ValidateIndexed(doc)

SpecManager == InitManager /\ [][NextManager]_vars

(***************************************************************************)
(* Several open documents: the text of each by uri, as TextDocuments keeps  *)
(* them, and the notifications sent to the client, oldest first.            *)
(***************************************************************************)
Uris == {"a.js", "b.js"}

\* $.ajax({url:"/api/users",type:"POST",data:{}}), the same to an unknown URL,
\* with a field of the wrong type, and a call that is not $.ajax.
WorkspaceDocuments ==
    {[receiver |-> "$",
      properties |-> <<Assign("url", StringLit(u)), Assign("type", StringLit("POST")), Assign("data", d)>>,
      closed |-> TRUE] :
        u \in {<<"/", "u">>, <<"/", "x">>},
        d \in {ObjectLit(<<>>), ObjectLit(<<Assign("age", StringLit(<<"s">>))>>)}}
    \cup {[receiver |-> "axios",
           properties |-> <<Assign("url", StringLit(<<"/", "x">>))>>, closed |-> TRUE]}

\* sendDiagnostics that adds the list to the one sent before.
sendDiagnosticsAdding(log, uri, list) ==
    Append(log, [uri |-> uri,
                 diagnostics |-> (IF log = <<>> THEN <<>> ELSE log[Len(log)].diagnostics) \o list])

\* connection.sendDiagnostics({ uri: textDocument.uri, diagnostics })
sendDiagnostics(log, uri, list) == Append(log, [uri |-> uri, diagnostics |-> list])

InitWorkspace ==
    /\ mockSwagger = SwaggerTable
    /\ Idle
    /\ document = undefined
    /\ diagnostics = <<>>
    /\ passes = 0
    /\ completion = NotCalled
    /\ IdleSnippet /\ IdleManager /\ IdleWorkspace

\* documents.onDidOpen for a document that was not open.
OpenDocument(uri, doc) ==
    /\ Len(sent) < MaxEvents
    /\ uri \notin DOMAIN documents
    /\ documents' = MapSet(documents, uri, doc)
    /\ sent' = sendDiagnostics(sent, uri, validateTextDocument(mockSwagger, doc))
    /\ UNCHANGED <<serverVars, snippetVars, managerVars>>

\* documents.onDidChangeContent: the text of an open document is now doc
\* (the text it had, for the event that follows the opening).
ChangeDocument(uri, doc) ==
    /\ Len(sent) < MaxEvents
    /\ uri \in DOMAIN documents
    /\ documents' = MapSet(documents, uri, doc)
    /\ sent' = sendDiagnostics(sent, uri, validateTextDocument(mockSwagger, doc))
    /\ UNCHANGED <<serverVars, snippetVars, managerVars>>

NextWorkspace ==
    \/ \E uri \in Uris, doc \in WorkspaceDocuments : OpenDocument(uri, doc)
    \/ \E uri \in Uris, doc \in WorkspaceDocuments : ChangeDocument(uri, doc)

SpecWorkspace == InitWorkspace /\ [][NextWorkspace]_vars

(***************************************************************************)
(* Claims about the matcher.                                               *)
(***************************************************************************)
RECURSIVE StripLeading(_)
StripLeading(s) == IF s # <<>> /\ Head(s) = "/" THEN StripLeading(Tail(s)) ELSE s

RECURSIVE StripTrailing(_)
StripTrailing(s) ==
    IF s # <<>> /\ s[Len(s)] = "/" THEN StripTrailing(SubSeq(s, 1, Len(s) - 1)) ELSE s

\* The segments of the statement: strip leading and trailing slashes, split on '/'.
Segments(s) == Split(StripTrailing(StripLeading(s)))

\* The statement's condition for template t and literal URL u.
SegmentsAgree(t, u) ==
    LET ts == Segments(t)
        us == Segments(u)
    IN  /\ Len(ts) = Len(us)
        /\ \A i \in 1..Len(ts) :
              IF IsPathParam(ts[i]) THEN us[i] # <<>> ELSE ts[i] = us[i]

AgreeingRoutes(table, u) == {i \in 1..Len(table) : SegmentsAgree(table[i].url, u)}

UrlReturned == urlMatch # NotCalled
UrlResult == urlMatch[2]

\* C1: getMatchingSwaggerUrl(u) returns a template t only if t and u have equal
\* segment counts, literal segments equal and {param} segments facing non-empty
\* segments (segments: strip leading/trailing slashes, split on '/'), and it
\* returns none only if no template of the table satisfies this.
C1_MatchIffSegmentsAgree ==
    UrlReturned =>
        /\ IsDefined(UrlResult) =>
              \E i \in AgreeingRoutes(mockSwagger, currentUrl) :
                  mockSwagger[i].url = ValueOf(UrlResult)
        /\ ~IsDefined(UrlResult) => AgreeingRoutes(mockSwagger, currentUrl) = {}

C3_TrailingSlashIgnored ==
    (UrlReturned /\ urlMatchSlash # NotCalled) => urlMatchSlash[2] = UrlResult

\* C3 witness: a URL without trailing slash that matches a template, looked up
\* both ways.
C3_Witness ==
    /\ UrlReturned
    /\ urlMatchSlash # NotCalled
    /\ currentUrl # <<>>
    /\ currentUrl[Len(currentUrl)] # "/"
    /\ IsDefined(UrlResult)
    /\ urlMatchSlash[2] = UrlResult

(***************************************************************************)
(* Claims about validation.                                                *)
(***************************************************************************)
\* A document holding a recognised $.ajax call has been validated.
Validated == IsDefined(document) /\ matches(CallNode(ValueOf(document)))
Config == ValueOf(document).properties
ConfigStart == ConfigObject(ValueOf(document)).start

\* The simple key: value assignments with an identifier key, by position.
KeyValues(props) ==
    {i \in 1..Len(props) : props[i].kind = "PropertyAssignment" /\ props[i].name.kind = "Identifier"}
Keyed(props, names, kind) ==
    {i \in KeyValues(props) : props[i].name.text \in names /\ props[i].initializer.kind = kind}
NoDuplicateKeys(props) ==
    \A i, j \in KeyValues(props) : props[i].name.text = props[j].name.text => i = j

UrlLiterals == Keyed(Config, {"url"}, "StringLiteral")
VerbLiterals == Keyed(Config, {"type", "method"}, "StringLiteral")
DataLiterals == Keyed(Config, {"data"}, "ObjectLiteralExpression")
TheUrl == LocatedInitializer(ConfigStart, Config, CHOOSE i \in UrlLiterals : TRUE)
TheVerb == LocatedInitializer(ConfigStart, Config, CHOOSE i \in VerbLiterals : TRUE)
TheData == LocatedInitializer(ConfigStart, Config, CHOOSE i \in DataLiterals : TRUE)
TheTemplate == getMatchingSwaggerUrl(mockSwagger, TheUrl.node.text)

Count(seq, P(_)) == Cardinality({i \in 1..Len(seq) : P(seq[i])})

\* C5: a config without duplicate keys whose literal url matches no template
\* gets exactly one diagnostic, the Error 'unknown URL' on the URL literal
\* without its quotes, whatever verb and data it contains.
C5_UnknownUrlOnly ==
    (/\ Validated
     /\ NoDuplicateKeys(Config)
     /\ UrlLiterals # {}
     /\ ~IsDefined(TheTemplate))
    => diagnostics =
         <<Diagnostic("Error",
                      RangeOf(TheUrl.start + 1, TheUrl.start + 1 + Len(TheUrl.node.text)),
                      <<"unknown URL", TheUrl.node.text>>)>>

\* C5 witness: url: "/x" with a verb and a data object, validated.
C5_Witness ==
    /\ Validated
    /\ NoDuplicateKeys(Config)
    /\ UrlLiterals # {} /\ VerbLiterals # {} /\ DataLiterals # {}
    /\ ~IsDefined(TheTemplate)
    /\ Len(diagnostics) = 1

\* C6: a config without duplicate keys whose literal url matches a template and
\* whose literal verb, lower-cased, is no verb key of that template gets exactly
\* one diagnostic, the Error 'HTTP method not supported' on the verb literal
\* without its quotes; this for every verb string.
C6_UnsupportedVerbOnly ==
    (/\ Validated
     /\ NoDuplicateKeys(Config)
     /\ UrlLiterals # {}
     /\ IsDefined(TheTemplate)
     /\ Cardinality(VerbLiterals) = 1
     /\ toLowerCase(TheVerb.node.text)
           \notin DOMAIN RouteOf(mockSwagger, ValueOf(TheTemplate)).methods)
    => diagnostics =
         <<Diagnostic("Error",
                      RangeOf(TheVerb.start + 1, TheVerb.start + 1 + Len(TheVerb.node.text)),
                      <<"HTTP method not supported",
                        toUpperCase(toLowerCase(TheVerb.node.text)), TheUrl.node.text>>)>>

\* Body validation runs: the url matches, the verb is post, put or patch and is
\* defined on the template, and data is an object literal.
BodyValidated ==
    /\ Validated
    /\ Cardinality(UrlLiterals) = 1 /\ Cardinality(VerbLiterals) = 1
    /\ Cardinality(DataLiterals) = 1
    /\ IsDefined(TheTemplate)
    /\ toLowerCase(TheVerb.node.text) \in {"post", "put", "patch"}
    /\ toLowerCase(TheVerb.node.text)
          \in DOMAIN RouteOf(mockSwagger, ValueOf(TheTemplate)).methods

BodySchema ==
    ValueOf(ValueOf(BodyParamOf(
        RouteOf(mockSwagger, ValueOf(TheTemplate)).methods[toLowerCase(TheVerb.node.text)])).schema)
Required == {ValueOf(BodySchema.required)[i] : i \in 1..Len(ValueOf(BodySchema.required))}
DeclaredType(n) ==
    LET ps == ValueOf(BodySchema.properties)
    IN  {ps[i].type : i \in {k \in 1..Len(ps) : ps[k].name = n}}
Members == TheData.node.properties
\* The members written key: value, whatever the form of the key.
Assigned == {i \in 1..Len(Members) : Members[i].kind = "PropertyAssignment"}
Present == {Members[i].name.text : i \in Assigned}
FieldNames ==
    Required \cup {Members[i].name.text : i \in 1..Len(Members)}
        \cup {ValueOf(BodySchema.properties)[i].name : i \in 1..Len(ValueOf(BodySchema.properties))}

C8_UnknownFields ==
    BodyValidated =>
        \A i \in Assigned :
            Count(diagnostics,
                  LAMBDA d : /\ d.message = <<"unknown field", Members[i].name.text>>
                             /\ d.severity = "Error"
                             /\ d.range = FullRange(LocatedName(TheData.start, Members, i)))
               = IF DeclaredType(Members[i].name.text) = {} THEN 1 ELSE 0

\* C9: for each member of data whose name the schema declares with type D and
\* whose value infers a type I, body validation emits a Warning 'type mismatch'
\* on the value's range exactly when D differs from I and (D, I) is not
\* (integer, number); it emits none when no type is inferred.
C9_TypeMismatches ==
    BodyValidated =>
        \A i \in Assigned :
            DeclaredType(Members[i].name.text) # {} =>
                LET D == CHOOSE t \in DeclaredType(Members[i].name.text) : TRUE
                    I == getNodeType(Members[i].initializer)
                    warned == \E k \in 1..Len(diagnostics) :
                                /\ diagnostics[k].severity = "Warning"
                                /\ diagnostics[k].message[1] = "type mismatch"
                                /\ diagnostics[k].range =
                                      FullRange(LocatedInitializer(TheData.start, Members, i))
                IN  warned <=> (/\ IsDefined(I)
                                /\ D # ValueOf(I)
                                /\ ~(D = "integer" /\ ValueOf(I) = "number"))

\* No property named url is a key: value assignment of a string literal.
NoLiteralUrl ==
    \A i \in 1..Len(Config) :
        Config[i].name.text = "url" =>
            ~(Config[i].kind = "PropertyAssignment" /\ Config[i].initializer.kind = "StringLiteral")

\* C10 as stated: a config whose url is absent or not a string literal gets no
\* diagnostics at all, whatever its other properties.
C10_NoUrlNoDiagnostics ==
    (Validated /\ NoLiteralUrl) => diagnostics = <<>>

\* C10 amended: a config whose url is absent or not a string literal gets no
\* diagnostics other than the Errors 'duplicate property' of its repeated keys.
C10_NoUrlOnlyDuplicates ==
    (Validated /\ NoLiteralUrl) =>
        \A i \in 1..Len(diagnostics) : diagnostics[i].message[1] = "duplicate property"

\* C10 witness: {url:v,type:"GET",data:{age:"s"}}, a non-literal url beside a
\* verb no template would matter for and a data object, validated clean.
C10_Witness ==
    /\ Validated
    /\ NoLiteralUrl
    /\ \E i \in KeyValues(Config) : Config[i].name.text = "url"
    /\ VerbLiterals # {}
    /\ \E i \in DataLiterals : Config[i].initializer.properties # <<>>
    /\ diagnostics = <<>>

(***************************************************************************)
(* Claims about duplicate keys.                                            *)
(***************************************************************************)
\* The positions of the key: value assignments whose identifier key is k.
Occurrences(props, k) == {i \in KeyValues(props) : props[i].name.text = k}

\* C11: for every identifier key of the config's key: value assignments that
\* appears n times, validation emits n-1 'duplicate property' diagnostics for
\* it (none when n = 1): one Error on the key range of each occurrence after
\* the first, and none on the first.
C11_DuplicateProperties ==
    Validated =>
        \A i \in KeyValues(Config) :
            LET k == Config[i].name.text
                first == CHOOSE a \in Occurrences(Config, k) :
                            \A b \in Occurrences(Config, k) : a <= b
            IN  /\ Count(diagnostics, LAMBDA d : d.message = <<"duplicate property", k>>)
                      = Cardinality(Occurrences(Config, k)) - 1
                /\ Count(diagnostics,
                         LAMBDA d : /\ d.message = <<"duplicate property", k>>
                                    /\ d.severity = "Error"
                                    /\ d.range = FullRange(LocatedName(ConfigStart, Config, i)))
                      = IF i = first THEN 0 ELSE 1

\* C11 witness: a key written three times has been reported twice, beside a
\* document in which nothing else is reported.
C11_Witness ==
    /\ Validated
    /\ \E i \in KeyValues(Config) : Cardinality(Occurrences(Config, Config[i].name.text)) = 3
    /\ Count(diagnostics, LAMBDA d : d.message[1] = "duplicate property") = 2

\* The first and the last position of a non-empty set of positions, if any.
FirstOf(S) == IF S = {} THEN undefined ELSE Some(CHOOSE a \in S : \A b \in S : a <= b)
LastOf(S) == IF S = {} THEN undefined ELSE Some(CHOOSE a \in S : \A b \in S : a >= b)

Reported(kind) == {i \in 1..Len(diagnostics) : diagnostics[i].message[1] = kind}

\* The URL, verb and body checks of the pass were made on the url literal at
\* position u, the verb literal at v and the data literal at d (v, d optional).
ChecksUse(u, v, d) ==
    LET url == LocatedInitializer(ConfigStart, Config, u)
        template == getMatchingSwaggerUrl(mockSwagger, url.node.text)
    IN  /\ (Reported("unknown URL") # {}) <=> ~IsDefined(template)
        /\ \A i \in Reported("unknown URL") :
              diagnostics[i] = Diagnostic("Error", InnerRange(url), <<"unknown URL", url.node.text>>)
        /\ (Reported("HTTP method not supported") # {}) => (IsDefined(template) /\ IsDefined(v))
        /\ (Reported("missing required field") # {}) => (IsDefined(template) /\ IsDefined(v) /\ IsDefined(d))
        /\ (IsDefined(template) /\ IsDefined(v)) =>
              LET verb == LocatedInitializer(ConfigStart, Config, ValueOf(v))
                  type == toLowerCase(verb.node.text)
                  route == RouteOf(mockSwagger, ValueOf(template))
              IN  /\ \A i \in Reported("HTTP method not supported") :
                        /\ diagnostics[i].range = InnerRange(verb)
                        /\ diagnostics[i].message[2] = toUpperCase(type)
                  /\ type \in DOMAIN route.methods => Reported("HTTP method not supported") = {}
                  /\ type \notin (DOMAIN route.methods \cup ObjectPrototypeMembers)
                        => Reported("HTTP method not supported") # {}
                  /\ (Reported("missing required field") # {}) =>
                        (type \in {"post", "put", "patch"} /\ type \in DOMAIN route.methods)
                  /\ (type \in {"post", "put", "patch"} /\ type \in DOMAIN route.methods /\ IsDefined(d)) =>
                        LET data == LocatedInitializer(ConfigStart, Config, ValueOf(d))
                            schema == ValueOf(ValueOf(BodyParamOf(route.methods[type])).schema)
                            required == ValueOf(schema.required)
                            present == {data.node.properties[k].name.text :
                                           k \in {j \in 1..Len(data.node.properties) :
                                                     data.node.properties[j].kind = "PropertyAssignment"}}
                        IN  /\ \A i \in Reported("missing required field") :
                                  diagnostics[i].range = FullRange(data)
                            /\ \A k \in 1..Len(required) :
                                  (\E i \in Reported("missing required field") :
                                      diagnostics[i].message[2] = required[k])
                                  <=> required[k] \notin present

\* C12 as stated: when url, the verb or data is assigned more than once, the
\* URL, verb and body checks use the first literal in source order.
C12_FirstSeenWins ==
    (Validated /\ UrlLiterals # {}) =>
        ChecksUse(ValueOf(FirstOf(UrlLiterals)), FirstOf(VerbLiterals), FirstOf(DataLiterals))

\* C12 amended: when url, the verb or data is assigned more than once, the URL,
\* verb and body checks use the last literal in source order.
C12_LastSeenWins ==
    (Validated /\ UrlLiterals # {}) =>
        ChecksUse(ValueOf(LastOf(UrlLiterals)), LastOf(VerbLiterals), LastOf(DataLiterals))

\* C12 witness: {url:"/x",url:"/u",type:"POST",data:{...}} with a member typed
\* into data: no 'unknown URL' for the first literal, and the body of the last
\* url's POST is checked.
C12_Witness ==
    /\ Validated
    /\ Cardinality(UrlLiterals) = 2
    /\ ~IsDefined(getMatchingSwaggerUrl(mockSwagger,
            Config[ValueOf(FirstOf(UrlLiterals))].initializer.text))
    /\ Config[Len(Config)].initializer.properties # <<>>
    /\ Reported("unknown URL") = {}
    /\ Reported("missing required field") # {}

C14_UrlCompletionRoundTrip ==
    completion[1] = "accepted" => Reported("unknown URL") = {}

\* C14 witness: a key with a {param} segment has been applied to an unknown
\* url and validated.
C14_Witness ==
    /\ completion[1] = "accepted"
    /\ \E k \in 1..Len(completion[2].insertText) : completion[2].insertText[k] = "{"
    /\ Validated
    /\ Config[1].initializer.text = completion[2].insertText
    /\ passes = 1

(***************************************************************************)
(* Claims about completion.                                                *)
(***************************************************************************)
Answered == completion[1] = "returned"
Cursor == completion[2].offset
Items == completion[2].items
ConfigEnd == ConfigObject(ValueOf(document)).end

\* The cursor is after the opening and before the closing quote of the string
\* literal that is the value of the i-th property.
InsideLiteral(i) ==
    /\ Cursor > LocatedInitializer(ConfigStart, Config, i).start
    /\ Cursor < LocatedInitializer(ConfigStart, Config, i).end

\* The template of the config's url literal (the last one, see C12), if any.
UrlTemplate ==
    IF UrlLiterals = {} THEN undefined
    ELSE getMatchingSwaggerUrl(mockSwagger, Config[ValueOf(LastOf(UrlLiterals))].initializer.text)

\* C15: with the cursor inside the string literal of url, the answer is one
\* item per key of the route table, in table order, whose label and insertion
\* text are the key and which is no snippet, whatever the literal holds.
C15_UrlValueItems ==
    (Answered /\ Validated /\ \E i \in UrlLiterals : InsideLiteral(i)) =>
        /\ Len(Items) = Len(mockSwagger)
        /\ \A k \in 1..Len(Items) :
              /\ Items[k].label = mockSwagger[k].url
              /\ Items[k].insertText = mockSwagger[k].url
              /\ Items[k].insertTextFormat = undefined

\* C15 witness: the cursor is between the quotes of url: "" in a config that
\* has other properties, and the keys of the table are offered.
C15_Witness ==
    /\ Answered /\ Validated
    /\ \E i \in UrlLiterals : InsideLiteral(i) /\ Config[i].initializer.text = <<>>
    /\ Len(Config) >= 2
    /\ Len(Items) = Len(mockSwagger)

\* C16: with the cursor inside the string literal of type or method and a
\* literal url that matches template T, the answer is one item per verb key of
\* T, upper-cased, without duplicates, label and insertion text the verb.
C16_VerbValueItems ==
    (/\ Answered /\ Validated
     /\ \E i \in VerbLiterals : InsideLiteral(i)
     /\ IsDefined(UrlTemplate))
    => LET verbs == {toUpperCase(v) :
                        v \in DOMAIN RouteOf(mockSwagger, ValueOf(UrlTemplate)).methods \ {"description"}}
       IN  /\ Len(Items) = Cardinality(verbs)
           /\ {Items[k].label : k \in 1..Len(Items)} = verbs
           /\ \A k \in 1..Len(Items) : Items[k].insertText = Items[k].label

\* C16 witness: the cursor is inside method: "put" of a config with url: "/u";
\* GET and POST are offered.
C16_Witness ==
    /\ Answered /\ Validated
    /\ \E i \in VerbLiterals : InsideLiteral(i) /\ Config[i].name.text = "method"
    /\ IsDefined(UrlTemplate)
    /\ {Items[k].label : k \in 1..Len(Items)} = {"GET", "POST"}

\* C17: with the cursor inside the string literal of type or method and no
\* literal url, or a literal url that matches no template, the answer is the
\* empty list: no later rule adds items.
C17_NoUrlNoVerbItems ==
    (/\ Answered /\ Validated
     /\ \E i \in VerbLiterals : InsideLiteral(i)
     /\ ~IsDefined(UrlTemplate))
    => Items = <<>>

\* The cursor is in the value position of the i-th property: from just after
\* its colon through its value.
InValuePosition(i) ==
    /\ Cursor >= LocatedName(ConfigStart, Config, i).end + 1
    /\ Cursor <= LocatedInitializer(ConfigStart, Config, i).end

DataAssignments == {i \in KeyValues(Config) : Config[i].name.text = "data"}
CurrentVerb == toLowerCase(Config[ValueOf(LastOf(VerbLiterals))].initializer.text)

\* The url literal matches a template, the verb literal is post, put or patch
\* and defined on it, and its body parameter has a schema with properties.
BodySchemaKnown ==
    /\ IsDefined(UrlTemplate)
    /\ VerbLiterals # {}
    /\ CurrentVerb \in {"post", "put", "patch"}
    /\ CurrentVerb \in DOMAIN RouteOf(mockSwagger, ValueOf(UrlTemplate)).methods
    /\ LET body == BodyParamOf(RouteOf(mockSwagger, ValueOf(UrlTemplate)).methods[CurrentVerb])
       IN  /\ IsDefined(body)
           /\ IsDefined(ValueOf(body).schema)
           /\ IsDefined(ValueOf(ValueOf(body).schema).properties)

SchemaProperties ==
    ValueOf(ValueOf(ValueOf(BodyParamOf(
        RouteOf(mockSwagger, ValueOf(UrlTemplate)).methods[CurrentVerb])).schema).properties)

\* A property that is neither an object with properties nor an array with items.
IsLeaf(p) ==
    /\ ~(p.type = "object" /\ IsDefined(p.properties))
    /\ ~(p.type = "array" /\ IsDefined(p.items))

\* The placeholder of the statement: the JSON-rendered example if declared,
\* else the default of the type.
Placeholder(p) ==
    IF IsDefined(p.example)
    THEN IF ValueOf(p.example).kind = "string"
         THEN <<"\"">> \o ValueOf(p.example).text \o <<"\"">>
         ELSE ValueOf(p.example).text
    ELSE IF p.type = "string" THEN <<"\"", "\"">>
    ELSE IF p.type \in {"number", "integer"} THEN <<"0">>
    ELSE IF p.type = "boolean" THEN <<"t", "r", "u", "e">>
    ELSE IF p.type = "array" THEN <<"[", "]">>
    ELSE IF p.type = "object" THEN <<"{", "}">>
    ELSE <<"n", "u", "l", "l">>

\* One item per schema property, labelled with its name; a leaf inserts
\* "<name>": ${1:<placeholder>}.
ItemsAreSchemaProperties ==
    /\ Len(Items) = Len(SchemaProperties)
    /\ \A k \in 1..Len(Items) :
          /\ Items[k].label = SchemaProperties[k].name
          /\ IsLeaf(SchemaProperties[k]) =>
                Items[k].insertText =
                    <<"\"", SchemaProperties[k].name, "\"", ":", " ", "$", "{", "1", ":">>
                    \o Placeholder(SchemaProperties[k]) \o <<"}">>

NoValueRule ==
    \A i \in KeyValues(Config) :
        /\ (Config[i].name.text \in {"url", "type", "method"}
                /\ Config[i].initializer.kind = "StringLiteral")
              => ~(/\ Cursor > LocatedInitializer(ConfigStart, Config, i).start
                   /\ Cursor <= LocatedInitializer(ConfigStart, Config, i).end)
        /\ Config[i].name.text = "data"
              => ~(/\ Cursor >= LocatedName(ConfigStart, Config, i).end + 1
                   /\ Cursor <= LocatedInitializer(ConfigStart, Config, i).end + 1)

\* C19: with the cursor inside the config object's span and no value rule
\* applying, the answer is one item per key of url, type, method, data,
\* success, error, complete that is no property of the config, in that order.
C19_PropertyNameItems ==
    (/\ Answered /\ Validated
     /\ Cursor > ConfigStart /\ Cursor < ConfigEnd
     /\ NoValueRule)
    => LET present == {Config[i].name.text : i \in 1..Len(Config)}
           offered == SelectSeq(<<"url", "type", "method", "data", "success", "error", "complete">>,
                                LAMBDA key : key \notin present)
       IN  [k \in 1..Len(Items) |-> Items[k].label] = offered

\* C20: for a text that does not parse without errors the completion handler
\* returns no items and the validation pass publishes no diagnostics.
C20_MalformedTextYieldsNothing ==
    (IsDefined(document) /\ ~ValueOf(document).closed) =>
        /\ diagnostics = <<>>
        /\ Answered => Items = <<>>

\* C22: URL-value and verb-value items are returned only for a cursor after
\* the opening and before the closing quote of a string literal of url, type or
\* method; a cursor right after the closing quote gets none.
C22_ValueItemsStrictlyInside ==
    (Answered /\ Validated /\ \E k \in 1..Len(Items) : Items[k].kind = "Value")
    => \E i \in UrlLiterals \cup VerbLiterals : InsideLiteral(i)

\* The i-th property of the config is in the value position that holds the
\* cursor, and its value is written as an object.
DataObjectAtCursor ==
    \E i \in DataAssignments :
        InValuePosition(i) /\ Config[i].initializer.kind = "ObjectLiteralExpression"

SchemaRequired ==
    LET schema == ValueOf(ValueOf(BodyParamOf(
                      RouteOf(mockSwagger, ValueOf(UrlTemplate)).methods[CurrentVerb])).schema)
    IN  IF IsDefined(schema.required) THEN ValueOf(schema.required) ELSE <<>>

\* The detail of an item ends with the mark of a required or an optional field.
DetailTells(item, required) ==
    /\ IsDefined(item.detail)
    /\ LET detail == ValueOf(item.detail)
       IN  detail[Len(detail)] = IF required THEN " (required)" ELSE " (optional)"

\* C23: every body-field item, of a leaf, an object or an array property,
\* tells in its detail that the property is required exactly when its name is
\* in the schema's required list, and optional otherwise.
C23_DetailTellsRequired ==
    (Answered /\ Validated /\ DataObjectAtCursor /\ BodySchemaKnown) =>
        \A k \in 1..Len(Items) :
            DetailTells(Items[k], Includes(SchemaRequired, Items[k].label))

\* C24: a cursor that is not inside the config object's span (at or before its
\* opening brace, at or after the end of its closing brace) gets no items.
C24_NoItemsOutsideConfig ==
    (Answered /\ Validated /\ (Cursor <= ConfigStart \/ Cursor >= ConfigEnd))
    => Items = <<>>

(***************************************************************************)
(* Claims about the outcome of a validation pass.                          *)
(***************************************************************************)
\* The members of data written "key": value.
QuotedMembers ==
    {i \in 1..Len(Members) :
        Members[i].kind = "PropertyAssignment" /\ Members[i].name.kind = "StringLiteral"}

\* C28: a member of data written with a quoted key counts as present for the
\* missing-required-field check, and gets neither an 'unknown field' Error on
\* its key nor a 'type mismatch' Warning on its value.
C28_QuotedKeys ==
    BodyValidated =>
        \A i \in QuotedMembers :
            /\ \A k \in Reported("missing required field") :
                  diagnostics[k].message[2] # Members[i].name.text
            /\ \A k \in Reported("unknown field") :
                  diagnostics[k].range # FullRange(LocatedName(TheData.start, Members, i))
            /\ \A k \in Reported("type mismatch") :
                  diagnostics[k].range # FullRange(LocatedInitializer(TheData.start, Members, i))

\* C28 witness: data holds a required field and an undeclared field, both
\* under quoted keys, and has been validated.
C28_Witness ==
    /\ BodyValidated
    /\ \E i \in QuotedMembers : Members[i].name.text \in Required
    /\ \E i \in QuotedMembers : DeclaredType(Members[i].name.text) = {}
    /\ Reported("unknown field") = {}

BodyKinds == {"missing required field", "unknown field", "type mismatch"}
BodyReported == UNION {Reported(kind) : kind \in BodyKinds}

\* C29: the diagnostics of a call never hold both an 'unknown URL' and an
\* 'HTTP method not supported' Error, and hold body diagnostics only when they
\* hold neither and the verb literal is post, put or patch.
C29_OutcomesExclusive ==
    Validated =>
        /\ Reported("unknown URL") = {} \/ Reported("HTTP method not supported") = {}
        /\ BodyReported # {} =>
              /\ Reported("unknown URL") = {}
              /\ Reported("HTTP method not supported") = {}
              /\ VerbLiterals # {}
              /\ CurrentVerb \in {"post", "put", "patch"}

\* C29 witness: a config with url, verb and data whose body diagnostics are of
\* two kinds.
C29_Witness ==
    /\ Validated
    /\ UrlLiterals # {} /\ VerbLiterals # {} /\ DataLiterals # {}
    /\ Reported("missing required field") # {}
    /\ Reported("type mismatch") # {}

(***************************************************************************)
(* Claims about snippets.                                                  *)
(***************************************************************************)
SnippetText == dataSnippet[2].text

\* The numbers of the ${n:...} placeholders of a text, in text order.
PlaceholderNumbers(text) ==
    LET at == SelectSeq([k \in 1..Len(text) |-> k],
                        LAMBDA k : k + 2 <= Len(text) /\ text[k] = "$" /\ text[k + 1] = "{")
    IN  [j \in 1..Len(at) |-> CHOOSE n \in 0..Len(text) : ToString(n) = text[at[j] + 2]]

\* The schema has an object, or an array of objects, among its properties.
HasNestedProperties(s) ==
    \E k \in 1..Len(ValueOf(s.properties)) :
        ValueOf(s.properties)[k].type \in {"object", "array"}

\* C25: in a snippet of generateDataSnippet for an object schema the numbers of
\* the ${n:default} placeholders increase strictly in text order, those of
\* nested objects and array items included.
C25_PlaceholdersIncrease ==
    dataSnippet # NotCalled =>
        LET numbers == PlaceholderNumbers(SnippetText)
        IN  \A i, j \in 1..Len(numbers) : i < j => numbers[i] < numbers[j]

(***************************************************************************)
(* Claims about the FeatureManager and the dispatchers.                    *)
(***************************************************************************)
SyntaxKinds ==
    {"ExpressionStatement", "CallExpression", "PropertyAccessExpression", "Identifier",
     "ObjectLiteralExpression", "PropertyAssignment", "StringLiteral"}

AstNodes ==
    {AstNode(k, FALSE) : k \in SyntaxKinds} \cup {AstNode("CallExpression", TRUE)}

\* The features registered so far with the capability that declare the kind.
Declaring(capability, kind) ==
    SelectSeq(features, LAMBDA f : f[capability] /\ Includes(f.getSupportedNodeTypes, kind))

\* The table lists, for each kind, the features Declaring it, and has no
\* other key.
UpToDate(cache, capability) ==
    IsDefined(cache) =>
        /\ DOMAIN ValueOf(cache) = {k \in SyntaxKinds : Declaring(capability, k) # <<>>}
        /\ \A k \in DOMAIN ValueOf(cache) : ValueOf(cache)[k] = Declaring(capability, k)

DeclaresWhatItMatches ==
    \A i \in 1..Len(features) : \A n \in AstNodes :
        FeatureMatches(features[i], n) => Includes(features[i].getSupportedNodeTypes, n.kind)

SameInvocations(scan, indexed) ==
    (/\ dispatched[scan] # NotCalled
     /\ dispatched[indexed] # NotCalled
     /\ dispatched[scan][2].document = dispatched[indexed][2].document)
        => dispatched[scan][2].calls = dispatched[indexed][2].calls

SentFor(uri) == SelectSeq(sent, LAMBDA m : m.uri = uri)

\* What a validation pass over the text of the document finds.
FoundIn(uri) == validateTextDocument(mockSwagger, documents[uri])

ConfigsAroundCursor ==
    SelectSeq((IF matches(CallNode(ValueOf(document)))
               THEN <<ConfigObject(ValueOf(document))>> ELSE <<>>)
                  \o NestedConfigs(ConfigObject(ValueOf(document)), 1),
              LAMBDA c : c.start < Cursor /\ Cursor < c.end)

\* C30: with the cursor inside the config object of a $.ajax call that is
\* nested in a callback of another, the response holds the items of the
\* innermost call around the cursor only; the calls around it add nothing.
C30_InnermostCallOnly ==
    (Answered /\ Len(ConfigsAroundCursor) >= 2) =>
        Items = provideCompletionItems(mockSwagger,
                                       ConfigsAroundCursor[Len(ConfigsAroundCursor)], Cursor)

====
